---------------------------- MODULE Spec2Model ----------------------------
(***************************************************************************)
(* Model of the truck-charging site selector (src/selector.py) and of the  *)
(* callers that drive it (src/callbacks.py, src/data_loader.py).           *)
(*                                                                         *)
(* A table (pandas DataFrame) is a function from column names to columns;  *)
(* a column is a function from the regions (rows) to values.  A numeric    *)
(* value is an exact rational <<n, d>> with d > 0; <<0, 0>> is NaN.        *)
(* A geometry is modelled by its centroid, a point <<x, y>> in degrees.    *)
(***************************************************************************)
EXTENDS Integers, Sequences, FiniteSets, TLC

VARIABLES
    file,       \* the table gpd.read_file makes of the file at geojson_path
    chargers,   \* get_truck_chargers(): per region the miles to the nearest one
    cache,      \* data_loader._selector_cache holds a selector
    args,       \* the arguments of the call of a helper, <<>> for the others
    gdf,        \* self.gdf: the loaded region table
    config,     \* self.config: weights, sub-weights, constraints, mode flags
    scores,     \* self.scores: NoScores (None) or the scored table
    out,        \* the Series returned by the last category scorer call
    pool,       \* select_optimal_sites: feasible_scores after sort_values
    selected,   \* select_optimal_sites: GEOIDs of selected_sites, in rank order
    selN,       \* n_sites of the last select_optimal_sites call
    selD,       \* min_distance_mi of the last select_optimal_sites call
    warned,     \* the last call printed its shortfall warning
    raised,     \* the exception the last call ended with, or NoError
    call,       \* the operation whose result the caller holds, or Idle
    sessions    \* run_analysis: each running callback's position and local variables

vars == <<file, chargers, cache, args, gdf, config, scores, out, pool, selected, selN, selD, warned, raised, call, sessions>>

\* what a call leaves to its caller: the return value, the warning, the exception
result == <<out, pool, selected, selN, selD, warned, raised>>

\* what the selector is loaded from
disk == <<file, chargers>>

-----------------------------------------------------------------------------
(* Bounds of the model and constants of the program *)

MaxComposite == 2
MaxSites == 3
MilesPerDegree == 69

Regions == {"t1", "t2", "t3"}
Centroids == {<<0, 0>>, <<1, 0>>, <<2, 0>>, <<1, 1>>}
MinDistances == {0, 69, 70, 100}

NoScores == <<>>
NoError == "none"
Idle == "idle"

\* the browser sessions whose run_analysis callbacks the server runs
Sessions == {"a", "b"}

\* a callback that is not running: no position, no local variables
Ready ==
    [pc |-> "ready", inp |-> <<>>, scored_data |-> <<>>, optimal_sites |-> <<>>,
     raised |-> NoError]
NoSessions == [s \in Sessions |-> Ready]

-----------------------------------------------------------------------------
(* Exact arithmetic on values *)

NaN == <<0, 0>>
IsNaN(a) == a[2] = 0

Abs(n) == IF n < 0 THEN -n ELSE n

RECURSIVE GCD(_, _)
GCD(a, b) == IF b = 0 THEN a ELSE GCD(b, a % b)

Rat(n, d) ==
    IF d = 0 THEN NaN
    ELSE LET g == GCD(Abs(n), Abs(d))
             s == IF d < 0 THEN -1 ELSE 1
         IN  <<(s * n) \div g, (s * d) \div g>>

R(n) == <<n, 1>>
Zero == R(0)
Hundred == R(100)

RAdd(a, b) == IF IsNaN(a) \/ IsNaN(b) THEN NaN
              ELSE Rat(a[1] * b[2] + b[1] * a[2], a[2] * b[2])
RSub(a, b) == IF IsNaN(a) \/ IsNaN(b) THEN NaN
              ELSE Rat(a[1] * b[2] - b[1] * a[2], a[2] * b[2])
RMul(a, b) == IF IsNaN(a) \/ IsNaN(b) THEN NaN
              ELSE Rat(a[1] * b[1], a[2] * b[2])
\* division by zero is only ever reached after a zero test in the code
RDiv(a, b) == IF IsNaN(a) \/ IsNaN(b) \/ b[1] = 0 THEN NaN
              ELSE Rat(a[1] * b[2], a[2] * b[1])
\* comparisons with NaN are False, as in IEEE arithmetic
RLt(a, b) == ~IsNaN(a) /\ ~IsNaN(b) /\ a[1] * b[2] < b[1] * a[2]
RLe(a, b) == ~IsNaN(a) /\ ~IsNaN(b) /\ a[1] * b[2] <= b[1] * a[2]
RGt(a, b) == RLt(b, a)
RGe(a, b) == RLe(b, a)
REq(a, b) == ~IsNaN(a) /\ ~IsNaN(b) /\ a = b

\* Series.fillna(0)
FillNa(col) == [r \in DOMAIN col |-> IF IsNaN(col[r]) THEN Zero ELSE col[r]]
\* Series.clip(lo, hi) / np.clip: NaN stays NaN
Clip(a, lo, hi) == IF IsNaN(a) THEN NaN
                   ELSE IF RLt(a, lo) THEN lo
                   ELSE IF RGt(a, hi) THEN hi ELSE a
ClipCol(col, lo, hi) == [r \in DOMAIN col |-> Clip(col[r], lo, hi)]

\* pd.Series(v, index=df.index)
Const(v) == [r \in Regions |-> v]
\* element-wise Series arithmetic
ColAdd(a, b) == [r \in Regions |-> RAdd(a[r], b[r])]
ColSub(a, b) == [r \in Regions |-> RSub(a[r], b[r])]
ColScale(a, w) == [r \in Regions |-> RMul(a[r], w)]

\* Series.max() and Series.min(): NaN entries are skipped
ColMax(col) ==
    LET S == {col[r] : r \in {q \in DOMAIN col : ~IsNaN(col[q])}}
    IN  IF S = {} THEN NaN ELSE CHOOSE m \in S : \A x \in S : RLe(x, m)
ColMin(col) ==
    LET S == {col[r] : r \in {q \in DOMAIN col : ~IsNaN(col[q])}}
    IN  IF S = {} THEN NaN ELSE CHOOSE m \in S : \A x \in S : RLe(m, x)

-----------------------------------------------------------------------------
(* Tables and weight dictionaries *)

\* col in df.columns, key in dict
Has(t, c) == c \in DOMAIN t
\* df.get(col, default), dict.get(key, default)
Get(t, c, default) == IF Has(t, c) THEN t[c] ELSE default
\* df[col] = series, dict[key] = value
Put(t, c, v) == [x \in DOMAIN t \cup {c} |-> IF x = c THEN v ELSE t[x]]
\* {**defaults, **given}
Merge(defaults, given) ==
    [k \in DOMAIN defaults \cup DOMAIN given |->
        IF k \in DOMAIN given THEN given[k] ELSE defaults[k]]
\* the first name of a list of aliases that is a column of the table, or ""
RECURSIVE FirstPresent(_, _)
FirstPresent(t, names) ==
    IF names = <<>> THEN ""
    ELSE IF Has(t, Head(names)) THEN Head(names)
    ELSE FirstPresent(t, Tail(names))

\* sum(...) over the values of a dict, or over a set of rows of a column
RECURSIVE SumOver(_, _)
SumOver(f, S) ==
    IF S = {} THEN Zero
    ELSE LET k == CHOOSE x \in S : TRUE
         IN  RAdd(f[k], SumOver(f, S \ {k}))
SumValues(w) == SumOver(w, DOMAIN w)

\* what a weight entry can hold besides a number: None, or a value float()
\* rejects
None == <<>>
Text == <<"abc">>
IsNumber(v) == Len(v) = 2

\* [v for v in weights.values() if v is not None]
NonNull(w) == {k \in DOMAIN w : w[k] # None}

\* sum(vals) raises on a value that is not a number
SumRaises(w) == \E k \in NonNull(w) : ~IsNumber(w[k])

\* every value divided by s, None becoming 0.0
Divided(w, s) == [k \in DOMAIN w |-> IF w[k] = None THEN Zero ELSE RDiv(w[k], s)]

\* a dict divided by the sum of its values without the scale test
ScaleAlways(w, s) == IF REq(s, Zero) THEN w ELSE Divided(w, s)

\* unchanged when the sum is 0 or at most 1.5, otherwise divided by the sum
Scale(w, s) ==
    IF REq(s, Zero) THEN w
    ELSE IF RLe(s, Rat(3, 2)) THEN w
    ELSE Divided(w, s)

\* _normalize_weight_dict: unchanged when empty or when the sum cannot be
\* taken, otherwise scaled by the sum of the values that are not None
NormalizeWeightDict(w) ==
    IF w = <<>> THEN w
    ELSE IF SumRaises(w) THEN w
    ELSE Scale(w, SumOver(w, NonNull(w)))

\* float(v) returns a number that is not NaN
Numeric(w, k) == Has(w, k) /\ IsNumber(w[k]) /\ ~IsNaN(w[k])

\* a group counted as disabled when the weights it was given sum to 0, a
\* missing key counting as 0
DisabledWhenMissing(w, keys) ==
    SumOver([i \in 1..Len(keys) |-> IF Numeric(w, keys[i]) THEN w[keys[i]] ELSE Zero],
            1..Len(keys)) = Zero

\* _is_group_disabled: every key present, a number, none NaN, and the sum
\* exactly 0
IsGroupDisabled(w, keys) ==
    /\ \A i \in 1..Len(keys) : Numeric(w, keys[i])
    /\ SumOver([i \in 1..Len(keys) |-> w[keys[i]]], 1..Len(keys)) = Zero

\* the values of the keys, the default for a missing entry, for one float()
\* rejects and for NaN
GroupValues(w, keys, defaults) ==
    [i \in 1..Len(keys) |-> IF Numeric(w, keys[i]) THEN w[keys[i]] ELSE defaults[i]]

\* every value divided by the sum of the values
Shares(vals) == [i \in DOMAIN vals |-> RDiv(vals[i], SumOver(vals, DOMAIN vals))]

\* max(1, len(vals)) equal weights
EqualShares(n) == [i \in 1..n |-> Rat(1, n)]

\* the values divided by their sum, whatever the sum
SharesOfValues(vals, defaults) == Shares(vals)

\* the shares of the values; of the defaults when the values sum to 0; equal
\* weights when the defaults sum to 0 too
PickShares(vals, defaults) ==
    IF SumOver(vals, DOMAIN vals) # Zero THEN Shares(vals)
    ELSE IF SumOver(defaults, DOMAIN defaults) # Zero THEN Shares(defaults)
    ELSE EqualShares(IF Len(vals) > 1 THEN Len(vals) ELSE 1)

\* _normalize_weight_group
NormalizeWeightGroup(w, keys, defaults) ==
    PickShares(GroupValues(w, keys, defaults), defaults)

-----------------------------------------------------------------------------
(* _normalize_score and _normalize_score_with_density *)

\* 100 * (x - lo) / (hi - lo) when hi > lo, else all 0
Rescale(x, lo, hi) ==
    IF RGt(hi, lo)
    THEN [r \in Regions |-> RDiv(RMul(Hundred, RSub(x[r], lo)), RSub(hi, lo))]
    ELSE Const(Zero)

\* min-max to 0..100, or all 0 when the series is constant
MinMax(x) == Rescale(x, ColMin(x), ColMax(x))

\* _normalize_score: pd.to_numeric(series, errors='coerce').fillna(0), then
\* min-max
NormalizeScore(col) == MinMax(FillNa(col))

\* the values of a column in ascending order
RECURSIVE SortAsc(_, _)
SortAsc(col, S) ==
    IF S = {} THEN <<>>
    ELSE LET m == CHOOSE r \in S : \A q \in S : RLe(col[r], col[q])
         IN  <<col[m]>> \o SortAsc(col, S \ {m})

\* linear interpolation in the sorted values v at position pos / 20
Interpolate(v, pos) ==
    IF pos \div 20 + 2 > Len(v) THEN v[Len(v)]
    ELSE RAdd(v[pos \div 20 + 1],
              RMul(Rat(pos % 20, 20), RSub(v[pos \div 20 + 2], v[pos \div 20 + 1])))

\* Series.quantile(0.95): position 0.95 * (n - 1)
Quantile95(col) == Interpolate(SortAsc(col, Regions), 19 * (Cardinality(Regions) - 1))

\* series / area.replace(0, nan), then fillna(0)
Density(x, area) ==
    FillNa([r \in Regions |-> RDiv(x[r], IF area[r] = Zero THEN NaN ELSE area[r])])

\* Series.clip(upper=hi)
ClipUpper(col, hi) == [r \in Regions |-> IF RGt(col[r], hi) THEN hi ELSE col[r]]

\* a non-constant density clipped above at its 95th percentile, then min-max
DensityScore(dens) ==
    IF RGt(ColMax(dens), ColMin(dens)) THEN MinMax(ClipUpper(dens, Quantile95(dens)))
    ELSE Const(Zero)

\* _normalize_score_with_density: with an area column the series per square
\* mile; without one _normalize_score
NormalizeScoreWithDensity(g, col) ==
    IF Has(g, "area_sq_mi") THEN DensityScore(Density(FillNa(col), g["area_sq_mi"]))
    ELSE NormalizeScore(col)

-----------------------------------------------------------------------------
(* calculate_demand_score *)

HasAll(g, cols) == \A i \in 1..Len(cols) : Has(g, cols[i])

\* the weighted sum of the density-normalized columns of one subfactor group
GroupScore(g, cols, w) ==
    LET sc == [i \in 1..Len(cols) |-> NormalizeScoreWithDensity(g, g[cols[i]])]
    IN  [r \in Regions |->
            SumOver([i \in 1..Len(cols) |-> RMul(sc[i][r], w[i])], 1..Len(cols))]

PurposeCols == <<"purpose_1_trips", "purpose_2_trips", "purpose_3_trips">>
PurposeKeys == <<"home_end_weight", "workplace_end_weight", "other_end_weight">>
PurposeDefaults == <<Rat(2, 5), Rat(2, 5), Rat(1, 5)>>
DowCols == <<"dow_1_trips", "dow_2_3_trips">>
DowKeys == <<"weekday_weight", "weekend_weight">>
DowDefaults == <<Rat(7, 10), Rat(3, 10)>>
\* equity_score * w_eq + non_equity_score * w_non
EquityTripCols == <<"equity_1_trips", "equity_0_trips">>
EquityTripKeys == <<"equity_community_weight", "non_equity_community_weight">>
EquityTripDefaults == <<Rat(1, 2), Rat(1, 2)>>
TemporalKeys == <<"temporal_stability_weight", "temporal_peak_weight">>
TemporalDefaults == <<Rat(3, 5), Rat(2, 5)>>

\* the stability and peak columns: the passenger pair, else the truck pair
TemporalCols(g) ==
    IF HasAll(g, <<"passenger_temporal_stability_score", "passenger_peak_demand_score">>)
    THEN <<"passenger_temporal_stability_score", "passenger_peak_demand_score">>
    ELSE IF HasAll(g, <<"truck_temporal_stability_score", "truck_peak_demand_score">>)
    THEN <<"truck_temporal_stability_score", "truck_peak_demand_score">>
    ELSE <<>>

DemandWeights(cfg) == Get(cfg, "demand_weights", <<>>)
ComponentWeights(cfg) == NormalizeWeightDict(Get(cfg, "demand_component_weights", <<>>))

\* stability * w_stability + peak * w_peak over the raw columns
TemporalBlend(g, c, w) ==
    [r \in Regions |-> RAdd(RMul(g[c[1]][r], w[1]), RMul(g[c[2]][r], w[2]))]

\* temporal_score
TemporalScore(g, cfg) ==
    TemporalBlend(g, TemporalCols(g),
                  NormalizeWeightGroup(DemandWeights(cfg), TemporalKeys, TemporalDefaults))

TemporalUsed(g, cfg) ==
    TemporalCols(g) # <<>> /\ ~IsGroupDisabled(DemandWeights(cfg), TemporalKeys)

\* one entry of demand_components: (score, weight) of a component that has
\* its columns and whose subfactor group is not disabled, else nothing
Component(g, cfg, cols, keys, defaults, name, share) ==
    IF HasAll(g, cols) /\ ~IsGroupDisabled(DemandWeights(cfg), keys)
    THEN <<[score |-> GroupScore(g, cols,
                         NormalizeWeightGroup(DemandWeights(cfg), keys, defaults)),
            weight |-> Get(ComponentWeights(cfg), name, share)]>>
    ELSE <<>>

\* demand_components, in the order the method appends them
DemandComponents(g, cfg) ==
    Component(g, cfg, PurposeCols, PurposeKeys, PurposeDefaults, "purpose", Rat(7, 20))
    \o Component(g, cfg, DowCols, DowKeys, DowDefaults, "day_of_week", Rat(1, 4))
    \o Component(g, cfg, EquityTripCols, EquityTripKeys, EquityTripDefaults,
                 "equity_trips", Rat(1, 5))
    \o (IF TemporalUsed(g, cfg)
        THEN <<[score |-> TemporalScore(g, cfg),
                weight |-> Get(ComponentWeights(cfg), "temporal_pattern", Rat(1, 5))]>>
        ELSE <<>>)

\* total_weight = sum(weight for _, weight in demand_components)
TotalWeight(c) == SumOver([i \in 1..Len(c) |-> c[i].weight], 1..Len(c))

DemandTotalWeight(g, cfg) == TotalWeight(DemandComponents(g, cfg))

\* weight / total_weight divides by zero when the components' weights sum to 0
ComponentsError(c) ==
    IF c # <<>> /\ TotalWeight(c) = Zero THEN "ZeroDivisionError" ELSE NoError

DemandError(g, cfg) == ComponentsError(DemandComponents(g, cfg))

\* the components weighted by their share of total_weight, clipped to 0..100;
\* zeros when there is no component
CombineComponents(c) ==
    IF c = <<>> THEN Const(Zero)
    ELSE [r \in Regions |->
            Clip(SumOver([i \in 1..Len(c) |->
                             RMul(c[i].score[r], RDiv(c[i].weight, TotalWeight(c)))],
                         1..Len(c)),
                 Zero, Hundred)]

DemandScore(g, cfg) == CombineComponents(DemandComponents(g, cfg))

\* self.gdf['temporal_component_score'] = temporal_score
DemandGdf(g, cfg) ==
    IF TemporalUsed(g, cfg) THEN Put(g, "temporal_component_score", TemporalScore(g, cfg))
    ELSE g

-----------------------------------------------------------------------------
(* calculate_infrastructure_score *)

InfraDefaults ==
    [truck_charger_gap_weight |-> Rat(1, 5), park_ride_weight |-> Rat(3, 20),
     government_weight |-> Rat(3, 20), colocation_weight |-> Zero,
     expansion_weight |-> Rat(1, 20), electric_grid_weight |-> Rat(7, 20)]

\* the three weights the configuration surface sets
InfraGiven(cfg) == Get(cfg, "infrastructure_weights", <<>>)

\* {**_infra_defaults, **config['infrastructure_weights']}
InfraWeights(cfg) == Merge(InfraDefaults, InfraGiven(cfg))

\* 100 * clip(x, 0, cap) / cap
CapScore(x, cap) == RDiv(RMul(Hundred, Clip(x, Zero, R(cap))), R(cap))

\* _calculate_grid_infrastructure_score
GridScore(g) ==
    LET e3 == IF Has(g, "quantity_substations")
              THEN [r \in Regions |->
                       RMul(CapScore(FillNa(g["quantity_substations"])[r], 5), Rat(3, 10))]
              ELSE Const(Zero)
        ng == IF Has(g, "ng_grid_capacity_score")
              THEN ColScale(FillNa(g["ng_grid_capacity_score"]), Rat(7, 20))
              ELSE Const(Zero)
        ev == IF Has(g, "ev_infrastructure_readiness")
              THEN ColScale(FillNa(g["ev_infrastructure_readiness"]), Rat(1, 5))
              ELSE Const(Zero)
        hd == IF Has(g, "median_feeder_headroom_mva")
              THEN LET h == FillNa(g["median_feeder_headroom_mva"])
                   IN  IF RGt(ColMax(h), Zero)
                       THEN [r \in Regions |-> RMul(CapScore(h[r], 50), Rat(3, 20))]
                       ELSE Const(Zero)
              ELSE Const(Zero)
    IN  ClipCol(ColAdd(ColAdd(e3, ng), ColAdd(ev, hd)), Zero, Hundred)

GovWithinCols == <<"government_social_services_within_5mi",
                   "government_social_services within_5mi",
                   "government_social_services_within5mi">>
GovInCols == <<"government_social_services_in_tract",
               "government social services in tract",
               "government_social_services_intract">>

\* a 5-mile column min-max normalized, else an in-tract column normalized
\* per square mile, else nothing
WithinOrInTract(g, within, intract) ==
    IF FirstPresent(g, within) # "" THEN NormalizeScore(g[FirstPresent(g, within)])
    ELSE IF FirstPresent(g, intract) # ""
    THEN NormalizeScoreWithDensity(g, g[FirstPresent(g, intract)])
    ELSE Const(Zero)

ColocationScore(g) ==
    LET base == ColScale(NormalizeScoreWithDensity(g, g["retail_commercial_in_tract"]),
                         Rat(1, 2))
        rest == IF Has(g, "rest_stops_within_5mi")
                THEN ColScale(NormalizeScore(g["rest_stops_within_5mi"]), Rat(3, 10))
                ELSE Const(Zero)
        poi == IF Has(g, "poi_density_per_sq_mi")
               THEN ColScale(NormalizeScore(g["poi_density_per_sq_mi"]), Rat(1, 5))
               ELSE Const(Zero)
    IN  ClipCol(ColAdd(ColAdd(base, rest), poi), Zero, Hundred)

\* infra_total == 0, over the configured weights merged into the defaults
InfraDisabled(cfg) == REq(SumValues(InfraWeights(cfg)), Zero)

InfrastructureScore(g, cfg) ==
    IF InfraDisabled(cfg) THEN Const(Zero)
    ELSE
    LET w == NormalizeWeightDict(InfraWeights(cfg))
        gap == IF Has(g, "nearest_truck_charger_mi")
               THEN [r \in Regions |-> CapScore(g["nearest_truck_charger_mi"][r], 50)]
               ELSE Const(Zero)
        park == IF Has(g, "park_ride_spaces_within_5mi")
                THEN NormalizeScore(g["park_ride_spaces_within_5mi"])
                ELSE Const(Zero)
        gov == WithinOrInTract(g, GovWithinCols, GovInCols)
        colo == IF Has(g, "retail_commercial_in_tract") THEN ColocationScore(g)
                ELSE Const(Zero)
        expn == IF Has(g, "estimated_park_ride_area_acres")
                THEN NormalizeScore(g["estimated_park_ride_area_acres"])
                ELSE Const(Zero)
    IN  [r \in Regions |->
            Clip(RAdd(RAdd(RAdd(RMul(gap[r], w["truck_charger_gap_weight"]),
                                RMul(park[r], w["park_ride_weight"])),
                           RAdd(RMul(gov[r], Get(w, "government_weight", Zero)),
                                RMul(colo[r], Get(w, "colocation_weight", Zero)))),
                      RAdd(RMul(expn[r], w["expansion_weight"]),
                           RMul(GridScore(g)[r], w["electric_grid_weight"]))),
                 Zero, Hundred)]

-----------------------------------------------------------------------------
(* calculate_accessibility_score *)

AccessDefaults ==
    [network_weight |-> Rat(1, 2), grocery_weight |-> Rat(1, 4),
     gas_station_weight |-> Rat(1, 4)]
AccessWeights(cfg) == Get(cfg, "accessibility_weights", AccessDefaults)

GroceryWithinCols == <<"grocery_stores_within_5mi", "grocery_within_5mi",
                       "grocery stores within_5mi", "grocery_stores within_5mi">>
GroceryInCols == <<"grocery_stores_in_tract", "grocery stores in tract",
                   "grocery_in_tract">>
GasWithinCols == <<"gas_stations_within_5mi", "gas_station_within_5mi",
                   "gas stations within_5mi", "gas_stations within_5mi">>
GasInCols == <<"gas_stations_in_tract", "gas stations in tract",
               "gas_station_in_tract">>

\* a scorer that never takes the disabled branch
AccessNeverDisabled(cfg) == FALSE

\* access_total == 0
AccessDisabled(cfg) == REq(SumValues(AccessWeights(cfg)), Zero)

\* the secondary-corridor branch: the corridor score alone, no weights read
CorridorScore(g) ==
    IF Has(g, "secondary_corridor_only_score")
    THEN ClipCol(FillNa(g["secondary_corridor_only_score"]), Zero, Hundred)
    ELSE Const(Zero)

\* the all-road-types branch: zeros when the weights sum to 0, else the
\* weighted network, grocery and gas-station scores
WeightedAccessScore(g, cfg) ==
    IF AccessDisabled(cfg) THEN Const(Zero)
    ELSE
    LET w == NormalizeWeightDict(AccessWeights(cfg))
        net == IF Has(g, "D3AAO") THEN NormalizeScore(g["D3AAO"]) ELSE Const(Zero)
        gro == WithinOrInTract(g, GroceryWithinCols, GroceryInCols)
        gas == WithinOrInTract(g, GasWithinCols, GasInCols)
    IN  [r \in Regions |->
            Clip(RAdd(RAdd(RMul(net[r], Get(w, "network_weight", Zero)),
                           RMul(gro[r], Get(w, "grocery_weight", Zero))),
                      RMul(gas[r], Get(w, "gas_station_weight", Zero))),
                 Zero, Hundred)]

AccessibilityScore(g, cfg) ==
    IF Get(cfg, "secondary_corridor_mode", FALSE) THEN CorridorScore(g)
    ELSE WeightedAccessScore(g, cfg)

-----------------------------------------------------------------------------
(* calculate_equity_feasibility_score *)

EquityDefaults ==
    [ej_priority_weight |-> Rat(2, 5), landuse_suit_weight |-> Rat(7, 20),
     tier_bonus_weight |-> Rat(3, 20), protected_penalty_weight |-> Rat(1, 10)]
EquityWeights(cfg) == Get(cfg, "equity_weights", EquityDefaults)

\* equity_total == 0
EquityDisabled(cfg) == REq(SumValues(EquityWeights(cfg)), Zero)

\* the weights the scorer indexes, one per component whose column exists
EquityKeysRead(g) ==
    (IF Has(g, "ej_priority_score") THEN {"ej_priority_weight"} ELSE {})
    \cup (IF Has(g, "truck_suitability_final") \/ Has(g, "truck_charging_suitability")
          THEN {"landuse_suit_weight"} ELSE {})
    \cup (IF Has(g, "truck_feasibility_tier") \/ Has(g, "has_commercial_industrial")
          THEN {"tier_bonus_weight"} ELSE {})
    \cup (IF Has(g, "protected_penalty") \/ Has(g, "mostly_protected")
          THEN {"protected_penalty_weight"} ELSE {})

\* equity_weights[key] of a key the configuration does not hold
EquityError(g, cfg) ==
    IF ~EquityDisabled(cfg) /\ ~(EquityKeysRead(g) \subseteq DOMAIN EquityWeights(cfg))
    THEN "KeyError" ELSE NoError

\* np.where(x > 5, 20, np.where(x > 2, 10, 0)) * 0.05
SchoolPenalty(x) == IF RGt(x, R(5)) THEN R(1) ELSE IF RGt(x, R(2)) THEN Rat(1, 2) ELSE Zero
\* np.where(x > 3, 15, 0) * 0.05
HospitalPenalty(x) == IF RGt(x, R(3)) THEN Rat(3, 4) ELSE Zero

EquityScore(g, cfg) ==
    IF EquityDisabled(cfg) THEN Const(Zero)
    ELSE
    LET w == NormalizeWeightDict(EquityWeights(cfg))
        ej(r) ==
            IF ~Has(g, "ej_priority_score") THEN Zero
            ELSE IF Has(g, "charging_type") /\ g["charging_type"][r] = "depot_overnight"
            THEN RMul(Zero, w["ej_priority_weight"])
            ELSE RMul(RMul(RDiv(g["ej_priority_score"][r], Hundred), R(30)),
                      w["ej_priority_weight"])
        land(r) ==
            IF Has(g, "truck_suitability_final")
            THEN RMul(RMul(RDiv(g["truck_suitability_final"][r], Hundred), R(40)),
                      w["landuse_suit_weight"])
            ELSE IF Has(g, "truck_charging_suitability")
            THEN RMul(RMul(RDiv(g["truck_charging_suitability"][r], Hundred), R(40)),
                      w["landuse_suit_weight"])
            ELSE Zero
        tier(r) ==
            IF Has(g, "truck_feasibility_tier")
            THEN RMul(RMul(g["truck_feasibility_tier"][r], R(5)), w["tier_bonus_weight"])
            ELSE IF Has(g, "has_commercial_industrial")
            THEN RMul(RMul(g["has_commercial_industrial"][r], R(20)), w["tier_bonus_weight"])
            ELSE Zero
        prot(r) ==
            IF Has(g, "protected_penalty")
            THEN RMul(g["protected_penalty"][r], w["protected_penalty_weight"])
            ELSE IF Has(g, "mostly_protected")
            THEN RSub(Zero, RMul(RMul(g["mostly_protected"][r], R(50)),
                                 w["protected_penalty_weight"]))
            ELSE Zero
        school(r) == IF Has(g, "schools_within_5mi")
                     THEN SchoolPenalty(g["schools_within_5mi"][r]) ELSE Zero
        hosp(r) == IF Has(g, "hospitals_within_5mi")
                   THEN HospitalPenalty(g["hospitals_within_5mi"][r]) ELSE Zero
    IN  [r \in Regions |->
            Clip(RSub(RSub(RAdd(RAdd(RAdd(RAdd(R(50), ej(r)), land(r)), tier(r)), prot(r)),
                           school(r)), hosp(r)),
                 Zero, Hundred)]

-----------------------------------------------------------------------------
(* classify_urban_rural and classify_charging_type *)

\* a classifier that does not look at the mixed-use bonus
UrbanRuralWithoutMixedUse(g) ==
    IF Has(g, "urban_context_bonus") /\ Has(g, "rural_context_bonus")
    THEN LET u == FillNa(g["urban_context_bonus"])
             ru == FillNa(g["rural_context_bonus"])
         IN  [r \in Regions |->
                 IF Has(g, "landuse_diversity_score")
                    /\ RGt(FillNa(g["landuse_diversity_score"])[r], R(50))
                    /\ u[r] = Zero /\ ru[r] = Zero
                 THEN "mixed"
                 ELSE IF RGt(u[r], Zero) /\ RGt(ru[r], Zero) THEN "mixed"
                 ELSE IF RGt(ru[r], Zero) /\ u[r] = Zero THEN "rural"
                 ELSE IF RGt(u[r], Zero) /\ ru[r] = Zero THEN "urban"
                 ELSE "unknown"]
    ELSE Const("unknown")

UrbanRural(g) ==
    IF Has(g, "urban_context_bonus") /\ Has(g, "rural_context_bonus")
    THEN LET u == FillNa(g["urban_context_bonus"])
             ru == FillNa(g["rural_context_bonus"])
             mx == FillNa(Get(g, "mixed_use_bonus", Const(Zero)))
         IN  [r \in Regions |->
                 IF Has(g, "landuse_diversity_score")
                    /\ RGt(FillNa(g["landuse_diversity_score"])[r], R(50))
                    /\ u[r] = Zero /\ ru[r] = Zero
                 THEN "mixed"
                 ELSE IF (RGt(u[r], Zero) /\ RGt(ru[r], Zero)) \/ RGt(mx[r], Zero)
                 THEN "mixed"
                 ELSE IF RGt(ru[r], Zero) /\ u[r] = Zero THEN "rural"
                 ELSE IF RGt(u[r], Zero) /\ ru[r] = Zero THEN "urban"
                 ELSE "unknown"]
    ELSE Const("unknown")

LongDistanceCols == <<"%_long_distance_trips", "pct_long_distance_trips",
                      "percent_long_distance_trips", "% long distance trips",
                      "%_long_distance_trip_ends">>

\* ld_share: the first alias present, coerced and filled, or zeros
LongDistanceShare(g) ==
    IF FirstPresent(g, LongDistanceCols) = "" THEN Const(Zero)
    ELSE FillNa(g[FirstPresent(g, LongDistanceCols)])

\* np.where(ld_share > 5, 'long_distance', 'other')
ChargingType(g) ==
    [r \in Regions |-> IF RGt(LongDistanceShare(g)[r], R(5)) THEN "long_distance"
                       ELSE "other"]

\* classifiers that store the long-distance share as a fraction of 1
ClassifiedStoringFractions(g) ==
    LET g1 == Put(g, "urban_rural_context", UrbanRural(g))
    IN  Put(Put(g1, "charging_type", ChargingType(g1)),
            "pct_long_distance_trips", ColScale(LongDistanceShare(g1), Rat(1, 100)))

\* classifiers that leave a charging_type column alone when the table has one
ClassifiedKeepingType(g) ==
    LET g1 == Put(g, "urban_rural_context", UrbanRural(g))
    IN  Put(Put(g1, "charging_type", Get(g1, "charging_type", ChargingType(g1))),
            "pct_long_distance_trips", LongDistanceShare(g1))

\* the columns the two classifiers store on self.gdf
ClassifiedGdf(g) ==
    LET g1 == Put(g, "urban_rural_context", UrbanRural(g))
    IN  Put(Put(g1, "charging_type", ChargingType(g1)),
            "pct_long_distance_trips", LongDistanceShare(g1))

-----------------------------------------------------------------------------
(* apply_minimal_constraints *)

\* equity_0_trips + equity_1_trips, an absent column counting as 0
PersonTrips(g) ==
    ColAdd(IF Has(g, "equity_0_trips") THEN FillNa(g["equity_0_trips"]) ELSE Const(Zero),
           IF Has(g, "equity_1_trips") THEN FillNa(g["equity_1_trips"]) ELSE Const(Zero))

\* df.get(col, 0) > bound
Above(g, c, bound, r) == Has(g, c) /\ RGt(g[c][r], bound)

\* the mask; the person-trip floor is the constant 1 (person_trips >= 1), the
\* configured min_person_trips is not read
PassesMinimum(g, cfg) ==
    [r \in Regions |->
        /\ RGt(ColMax(PersonTrips(g)), Zero) => RGe(PersonTrips(g)[r], R(1))
        /\ IF Has(g, "landuse_pct_protected_natural")
           THEN RLt(g["landuse_pct_protected_natural"][r], R(95))
           ELSE Has(g, "mostly_protected") => g["mostly_protected"][r] = Zero
        /\ (Get(cfg["constraints"], "exclude_zero_headroom", FALSE)
              /\ Has(g, "median_feeder_headroom_mva"))
               => RGt(FillNa(g["median_feeder_headroom_mva"])[r], Zero)
        /\ IF Has(g, "truck_feasibility_tier")
           THEN \/ RGe(g["truck_feasibility_tier"][r], Zero)
                \/ Above(g, "landuse_pct_commercial", Rat(1, 2), r)
                \/ Above(g, "landuse_pct_industrial", Rat(1, 2), r)
                \/ Above(g, "truck_suitability_final", R(10), r)
           ELSE Has(g, "truck_suitability_final")
                   => RGe(g["truck_suitability_final"][r], R(10))]

-----------------------------------------------------------------------------
(* calculate_composite_score *)

WeightKeys == {"demand", "infrastructure", "accessibility", "equity_feasibility"}

\* demand * w + infrastructure * w + accessibility * w + equity_feasibility * w
WeightedSum(d, i, a, e, w) ==
    [r \in Regions |->
        RAdd(RAdd(RMul(d[r], w["demand"]), RMul(i[r], w["infrastructure"])),
             RAdd(RMul(a[r], w["accessibility"]), RMul(e[r], w["equity_feasibility"])))]

\* a composite that keeps the weighted sum of the rows that fail
KeepAll(passes, composite) == composite

\* np.where(passes_minimum, composite, 0)
ZeroOut(passes, composite) ==
    [r \in Regions |-> IF passes[r] THEN composite[r] ELSE Zero]

\* a run that ends with exception e and leaves table t in self.gdf
Failed(e, t) == [err |-> e, gdf |-> t, scores |-> NoScores]

\* composite[composite > 0].min() raises when no composite is positive;
\* otherwise the scored table.  The table also copies some forty columns of
\* self.gdf for display, which nothing in the selector reads; they are left
\* out.
ScoredTable(g, d, i, a, e, passes, composite) ==
    IF \A r \in Regions : ~RGt(composite[r], Zero) THEN Failed("ValueError", g)
    ELSE [err |-> NoError, gdf |-> g,
          scores |-> [GEOID |-> g["GEOID"],
                      demand_score |-> d,
                      infrastructure_score |-> i,
                      accessibility_score |-> a,
                      equity_feasibility_score |-> e,
                      composite_score |-> composite,
                      feasible |-> passes,
                      charging_type |-> g["charging_type"],
                      urban_rural_context |-> g["urban_rural_context"],
                      geometry |-> g["geometry"]]]

\* the weighted sum of the four scores, zeroed where the mask fails
Combine(g, d, i, a, e, passes, w) ==
    ScoredTable(g, d, i, a, e, passes, ZeroOut(passes, WeightedSum(d, i, a, e, w)))

\* the equity score on the classified table, the mask, the weights
ScoreClassified(g, d, i, a, cfg) ==
    IF EquityError(g, cfg) # NoError THEN Failed(EquityError(g, cfg), g)
    ELSE IF ~Has(cfg, "constraints") THEN Failed("KeyError", g)
    ELSE IF ~(WeightKeys \subseteq DOMAIN cfg["weights"]) THEN Failed("KeyError", g)
    ELSE Combine(g, d, i, a, EquityScore(g, cfg), PassesMinimum(g, cfg), cfg["weights"])

\* one run of the method on table g under configuration cfg: the exception it
\* ends with, the table it leaves in self.gdf, and the scored table
CompositeRun(g, cfg) ==
    IF ~Has(cfg, "weights") THEN Failed("KeyError", g)
    ELSE IF DemandError(g, cfg) # NoError THEN Failed(DemandError(g, cfg), DemandGdf(g, cfg))
    ELSE ScoreClassified(ClassifiedGdf(DemandGdf(g, cfg)), DemandScore(g, cfg),
                         InfrastructureScore(DemandGdf(g, cfg), cfg),
                         AccessibilityScore(DemandGdf(g, cfg), cfg), cfg)

\* a scoring call that clears self.scores when it raises
CompositeScoreClearingOnError ==
    /\ call = Idle
    /\ \E run \in {CompositeRun(gdf, config)} :
          /\ gdf' = run.gdf
          /\ scores' = run.scores
          /\ out' = run.scores
          /\ raised' = run.err
    /\ call' = "calculate_composite_score"
    /\ UNCHANGED <<config, pool, selected, selN, selD, warned, disk, sessions, cache, args>>

CalculateCompositeScore ==
    /\ call = Idle
    /\ \E run \in {CompositeRun(gdf, config)} :
          /\ gdf' = run.gdf
          /\ scores' = IF run.err = NoError THEN run.scores ELSE scores
          /\ out' = run.scores
          /\ raised' = run.err
    /\ call' = "calculate_composite_score"
    /\ UNCHANGED <<config, pool, selected, selN, selD, warned, disk, sessions, cache, args>>

\* the category scorers called on their own
CalculateInfrastructureScore ==
    /\ call = Idle
    /\ call' = "calculate_infrastructure_score"
    /\ out' = InfrastructureScore(gdf, config)
    /\ raised' = NoError
    /\ UNCHANGED <<gdf, config, scores, pool, selected, selN, selD, warned, disk, sessions, cache, args>>

CalculateAccessibilityScore ==
    /\ call = Idle
    /\ call' = "calculate_accessibility_score"
    /\ out' = AccessibilityScore(gdf, config)
    /\ raised' = NoError
    /\ UNCHANGED <<gdf, config, scores, pool, selected, selN, selD, warned, disk, sessions, cache, args>>

CalculateEquityFeasibilityScore ==
    /\ call = Idle
    /\ call' = "calculate_equity_feasibility_score"
    /\ out' = IF EquityError(gdf, config) = NoError THEN EquityScore(gdf, config) ELSE <<>>
    /\ raised' = EquityError(gdf, config)
    /\ UNCHANGED <<gdf, config, scores, pool, selected, selN, selD, warned, disk, sessions, cache, args>>

-----------------------------------------------------------------------------
(* select_optimal_sites *)

\* self.scores[self.scores['feasible'] == True]
FeasibleRows(sc) == {r \in Regions : sc["feasible"][r] = TRUE}

\* descending composite_score
IsDescending(sc, p) ==
    \A i \in 1..Len(p) : \A j \in 1..Len(p) :
        i < j => RGe(sc["composite_score"][p[i]], sc["composite_score"][p[j]])

\* the orderings of a set of rows
Orderings(F) ==
    {p \in [1..Cardinality(F) -> F] :
        \A i \in DOMAIN p : \A j \in DOMAIN p : i # j => p[i] # p[j]}

\* a pool that keeps the infeasible rows
AllPools(sc) == {p \in Orderings(Regions) : IsDescending(sc, p)}

\* every order sort_values('composite_score', ascending=False) can leave the
\* feasible rows in: descending composite, rows of equal composite in any order
SortedPools(sc) == {p \in Orderings(FeasibleRows(sc)) : IsDescending(sc, p)}

\* centroid.distance(g.centroid) * 69 < min_distance_mi, on squares
DistSq(a, b) == (a[1] - b[1]) * (a[1] - b[1]) + (a[2] - b[2]) * (a[2] - b[2])
CloserThan(a, b, d) ==
    d > 0 /\ MilesPerDegree * MilesPerDegree * DistSq(a, b) < d * d

\* a check against the last selected geometry only
TooCloseLast(geom, r, sel, d) ==
    CloserThan(geom[r], geom[sel[Len(sel)]], d)

\* min(distances) < min_distance_mi over every selected geometry
TooClose(geom, r, sel, d) ==
    \E i \in 1..Len(sel) : CloserThan(geom[r], geom[sel[i]], d)

\* a loop that stops at the first candidate that is too close
RECURSIVE GreedyBreak(_, _, _, _, _)
GreedyBreak(geom, p, sel, n, d) ==
    IF p = <<>> \/ Len(sel) >= n THEN sel
    ELSE IF Len(sel) > 0 /\ TooClose(geom, Head(p), sel, d)
         THEN sel
         ELSE GreedyBreak(geom, Tail(p), Append(sel, Head(p)), n, d)

\* a loop that passes over the candidate that follows a selected one
RECURSIVE GreedyEveryOther(_, _, _, _, _)
GreedyEveryOther(geom, p, sel, n, d) ==
    IF p = <<>> \/ Len(sel) >= n THEN sel
    ELSE IF Len(sel) > 0 /\ TooClose(geom, Head(p), sel, d)
         THEN GreedyEveryOther(geom, Tail(p), sel, n, d)
         ELSE GreedyEveryOther(geom, IF Len(p) >= 2 THEN Tail(Tail(p)) ELSE <<>>,
                               Append(sel, Head(p)), n, d)

\* the loop over feasible_scores.iterrows()
RECURSIVE GreedyLoop(_, _, _, _, _)
GreedyLoop(geom, p, sel, n, d) ==
    IF p = <<>> \/ Len(sel) >= n THEN sel
    ELSE IF Len(sel) > 0 /\ TooClose(geom, Head(p), sel, d)
         THEN GreedyLoop(geom, Tail(p), sel, n, d)
         ELSE GreedyLoop(geom, Tail(p), Append(sel, Head(p)), n, d)

\* a selection that fills a shortfall with the top rows regardless of distance
GreedyFill(geom, p, n, d) ==
    LET g == GreedyLoop(geom, p, <<>>, n, d)
    IN  IF Len(g) < n /\ Len(p) >= n THEN SubSeq(p, 1, n) ELSE g

\* selected_sites starts empty
Greedy(geom, p, n, d) == GreedyLoop(geom, p, <<>>, n, d)

\* gpd.GeoDataFrame(pd.DataFrame(selected_sites), geometry='geometry'): an empty
\* list of rows makes a frame without columns, and set_geometry then raises
\* ValueError("Unknown column geometry")
ResultError(sel) == IF sel = <<>> THEN "ValueError" ELSE NoError

SelectOptimalSites(n, d) ==
    /\ call = Idle
    /\ call' = "select_optimal_sites"
    /\ selN' = n
    /\ selD' = d
    /\ UNCHANGED <<gdf, config, scores, out, disk, sessions, cache, args>>
    /\ IF scores = NoScores
       THEN /\ raised' = "ValueError"
            /\ pool' = <<>>
            /\ selected' = <<>>
            /\ warned' = FALSE
       ELSE \E p \in SortedPools(scores) :
               LET sel == Greedy(scores["geometry"], p, n, d)
               IN  /\ pool' = p
                   /\ selected' = sel
                   /\ warned' = (Len(sel) < n)
                   /\ raised' = ResultError(sel)

\* the caller is done with the result: the locals of the call are gone
Return ==
    /\ call # Idle
    /\ call' = Idle
    /\ out' = <<>>
    /\ pool' = <<>>
    /\ selected' = <<>>
    /\ selN' = 0
    /\ selD' = 0
    /\ warned' = FALSE
    /\ raised' = NoError
    /\ args' = <<>>
    /\ UNCHANGED <<gdf, config, scores, disk, sessions, cache>>

SelectCall == \E n \in 0..MaxSites : \E d \in MinDistances : SelectOptimalSites(n, d)

-----------------------------------------------------------------------------
(* __init__: what a selector is loaded from *)

\* get_truck_chargers() returned None or no rows
NoChargers == <<>>

\* what __init__ raises before it returns: a table without GEOID fails
\* _verify_data_structure with ValueError; a table without geometry fails it
\* too, unless read_file made a plain DataFrame of the file, which has no crs
\* to read at line 18 (AttributeError)
LoadErrors(f) ==
    IF ~Has(f, "geometry") THEN {"ValueError", "AttributeError"}
    ELSE IF ~Has(f, "GEOID") THEN {"ValueError"}
    ELSE {NoError}

\* _calculate_truck_charger_proximity: 50.0 everywhere without charger data
ChargerProximity(g, ch) ==
    Put(g, "nearest_truck_charger_mi", IF ch = NoChargers THEN Const(R(50)) ELSE ch)

\* self.gdf when __init__ returns
Loaded(f, ch) == ChargerProximity(f, ch)

\* the file a table without charger data was loaded from
Unloaded(g) == [c \in DOMAIN g \ {"nearest_truck_charger_mi"} |-> g[c]]

\* the selector holds table g, loaded from its file when there was no charger
\* data, and the loader cached it
LoadedAs(g) ==
    /\ file = Unloaded(g)
    /\ chargers = NoChargers
    /\ cache = TRUE
    /\ args = <<>>

-----------------------------------------------------------------------------
(* The selection specification: every scored table calculate_composite_score   *)
(* can leave in self.scores (infeasible rows have composite 0, and some row has *)
(* a positive composite, since line 858 takes the minimum of the positive ones) *)
(* or no scores at all, then any calls of select_optimal_sites.                 *)

ScoredTables ==
    {[feasible |-> f, composite_score |-> [r \in Regions |-> R(c[r])], geometry |-> g] :
        f \in [Regions -> BOOLEAN], c \in [Regions -> 0..MaxComposite],
        g \in [Regions -> Centroids]}

Producible(sc) ==
    /\ \A r \in Regions : ~sc["feasible"][r] => sc["composite_score"][r] = Zero
    /\ \E r \in Regions : RGt(sc["composite_score"][r], Zero)

EmptyTable == <<>>

InitSelect ==
    /\ scores \in {sc \in ScoredTables : Producible(sc)} \cup {NoScores}
    /\ gdf = EmptyTable
    /\ config = EmptyTable
    /\ out = <<>>
    /\ pool = <<>>
    /\ selected = <<>>
    /\ selN = 0
    /\ selD = 0
    /\ warned = FALSE
    /\ raised = NoError
    /\ call = Idle
    /\ sessions = NoSessions
    /\ LoadedAs(gdf)

NextSelect == SelectCall \/ Return

SpecSelect == InitSelect /\ [][NextSelect]_vars

-----------------------------------------------------------------------------
(* _default_config, and the tables and configurations of the scoring         *)
(* specifications                                                            *)

DefaultWeights ==
    [demand |-> Rat(2, 5), infrastructure |-> Rat(1, 4),
     accessibility |-> Rat(1, 5), equity_feasibility |-> Rat(3, 20)]

\* the same shares on the point scale
PointWeights ==
    [demand |-> R(40), infrastructure |-> R(25),
     accessibility |-> R(20), equity_feasibility |-> R(15)]

DefaultConstraints ==
    [min_person_trips |-> R(10), only_within_secondary_buffer |-> TRUE,
     only_rural |-> FALSE, exclude_zero_headroom |-> FALSE]

DefaultConfig ==
    [weights |-> DefaultWeights,
     constraints |-> DefaultConstraints,
     demand_weights |->
        [home_end_weight |-> R(40), workplace_end_weight |-> R(40),
         other_end_weight |-> R(20), weekday_weight |-> R(70),
         weekend_weight |-> R(30), equity_community_weight |-> R(50),
         non_equity_community_weight |-> R(50),
         temporal_stability_weight |-> R(60), temporal_peak_weight |-> R(40)],
     demand_component_weights |->
        [purpose |-> Rat(7, 20), day_of_week |-> Rat(1, 4),
         equity_trips |-> Rat(1, 5), temporal_pattern |-> Rat(1, 5)],
     infrastructure_weights |->
        [truck_charger_gap_weight |-> Rat(1, 5), park_ride_weight |-> Rat(3, 20),
         government_weight |-> Rat(3, 20), colocation_weight |-> Rat(1, 10),
         expansion_weight |-> Rat(1, 20), electric_grid_weight |-> Rat(7, 20)],
     accessibility_weights |-> AccessDefaults,
     equity_weights |-> EquityDefaults,
     secondary_corridor_mode |-> FALSE,
     fleet_hub_mode |-> FALSE]

\* the table right after __init__: GEOID, geometry and the nearest-charger
\* distance, 50.0 everywhere when there is no charger data
BaseTable ==
    [GEOID |-> [r \in Regions |-> r],
     geometry |-> [r \in Regions |->
                     IF r = "t1" THEN <<0, 0>> ELSE IF r = "t2" THEN <<1, 0>> ELSE <<2, 0>>],
     nearest_truck_charger_mi |-> Const(R(50))]

\* the tables made of a base table and, for each optional column, either
\* nothing or one of the given columns
RECURSIVE WithOptional(_, _)
WithOptional(tables, opts) ==
    IF opts = <<>> THEN tables
    ELSE WithOptional(
            tables \cup {Put(t, Head(opts)[1], c) : t \in tables, c \in Head(opts)[2]},
            Tail(opts))

Numbers(S) == {R(n) : n \in S}

TripCounts == Numbers({0, 5, 10})
ProtectedShares == Numbers({0, 95})

ScoreTables ==
    WithOptional({BaseTable},
        << <<"equity_0_trips", [Regions -> TripCounts]>>,
           <<"equity_1_trips", [Regions -> Numbers({0, 5})]>>,
           <<"landuse_pct_protected_natural", [Regions -> ProtectedShares]>> >>)

ScoreConfigs ==
    {[DefaultConfig EXCEPT !["weights"] = w, !["constraints"]["min_person_trips"] = m] :
        w \in {DefaultWeights, PointWeights}, m \in Numbers({1, 10})}

InitScore ==
    /\ gdf \in ScoreTables
    /\ config \in ScoreConfigs
    /\ scores = NoScores
    /\ out = <<>>
    /\ pool = <<>>
    /\ selected = <<>>
    /\ selN = 0
    /\ selD = 0
    /\ warned = FALSE
    /\ raised = NoError
    /\ call = Idle
    /\ sessions = NoSessions
    /\ LoadedAs(gdf)

NextScore == CalculateCompositeScore \/ Return

SpecScore == InitScore /\ [][NextScore]_vars

-----------------------------------------------------------------------------
(* The infrastructure scorer on its own: tables with the grid, park-and-ride *)
(* and expansion columns, under the weights a configuration can hold         *)

\* the three infrastructure weights run_analysis writes
ThreeInfraWeights(gap, park, gov) ==
    [truck_charger_gap_weight |-> gap, park_ride_weight |-> park,
     government_weight |-> gov]

InfraTables ==
    WithOptional({BaseTable,
                  Put(BaseTable, "nearest_truck_charger_mi",
                      [r \in Regions |-> IF r = "t1" THEN Zero ELSE R(50)]),
                  Put(BaseTable, "nearest_truck_charger_mi",
                      [r \in Regions |-> IF r = "t1" THEN R(10) ELSE R(20)])},
        << <<"ng_grid_capacity_score", [Regions -> Numbers({0, 100})]>>,
           <<"park_ride_spaces_within_5mi", [Regions -> Numbers({0, 10})]>>,
           <<"estimated_park_ride_area_acres", [Regions -> Numbers({0, 4})]>> >>)

InfraConfigs ==
    {[DefaultConfig EXCEPT !["infrastructure_weights"] = w] :
        w \in {DefaultConfig["infrastructure_weights"],
               ThreeInfraWeights(Rat(1, 2), Rat(1, 4), Rat(1, 4)),
               ThreeInfraWeights(Zero, Zero, Zero),
               [k \in DOMAIN InfraDefaults |-> Zero]}}

InitInfra ==
    /\ gdf \in InfraTables
    /\ config \in InfraConfigs
    /\ scores = NoScores
    /\ out = <<>>
    /\ pool = <<>>
    /\ selected = <<>>
    /\ selN = 0
    /\ selD = 0
    /\ warned = FALSE
    /\ raised = NoError
    /\ call = Idle
    /\ sessions = NoSessions
    /\ LoadedAs(gdf)

NextInfra == CalculateInfrastructureScore \/ Return

SpecInfra == InitInfra /\ [][NextInfra]_vars

-----------------------------------------------------------------------------
(* The accessibility and equity scorers on their own *)

CategoryTables ==
    WithOptional({BaseTable},
        << <<"D3AAO", [Regions -> Numbers({0, 50})]>>,
           <<"secondary_corridor_only_score", [Regions -> Numbers({0, 80})]>>,
           <<"ej_priority_score", [Regions -> Numbers({0, 100})]>> >>)

\* the defaults, all zeros, and weights that cancel to a zero sum
AccessWeightChoices ==
    {AccessDefaults,
     [k \in DOMAIN AccessDefaults |-> Zero],
     [network_weight |-> Rat(1, 2), grocery_weight |-> Rat(-1, 4),
      gas_station_weight |-> Rat(-1, 4)]}

EquityWeightChoices == {EquityDefaults, [k \in DOMAIN EquityDefaults |-> Zero]}

CategoryConfigs ==
    {[DefaultConfig EXCEPT !["accessibility_weights"] = a, !["equity_weights"] = e,
                           !["secondary_corridor_mode"] = m] :
        a \in AccessWeightChoices, e \in EquityWeightChoices, m \in BOOLEAN}

InitCategory ==
    /\ gdf \in CategoryTables
    /\ config \in CategoryConfigs
    /\ scores = NoScores
    /\ out = <<>>
    /\ pool = <<>>
    /\ selected = <<>>
    /\ selN = 0
    /\ selD = 0
    /\ warned = FALSE
    /\ raised = NoError
    /\ call = Idle
    /\ sessions = NoSessions
    /\ LoadedAs(gdf)

NextCategory ==
    \/ CalculateAccessibilityScore
    \/ CalculateEquityFeasibilityScore
    \/ Return

SpecCategory == InitCategory /\ [][NextCategory]_vars

-----------------------------------------------------------------------------
(* data_loader.get_selector and reset_selector_cache, and the loading        *)
(* specification: files with and without the two required columns, with and  *)
(* without charger data, and no selector in the cache                        *)

\* a loader that has its selector whether or not the constructor returned
ConstructedAnyway(err) == TRUE

\* _selector_cache = TruckChargingSiteSelector(geojson_path): the assignment
\* happens when the constructor returns
Constructed(err) == err = NoError

GetSelector ==
    /\ call = Idle
    /\ call' = "get_selector"
    /\ out' = <<>>
    /\ UNCHANGED <<disk, sessions, args, pool, selected, selN, selD, warned>>
    /\ IF cache
       THEN /\ raised' = NoError
            /\ UNCHANGED <<cache, gdf, config, scores>>
       ELSE \E err \in LoadErrors(file) :
               /\ cache' = Constructed(err)
               /\ IF err # NoError
                  THEN /\ raised' = err
                       /\ UNCHANGED <<gdf, config, scores>>
                  ELSE \E run \in {CompositeRun(Loaded(file, chargers), DefaultConfig)} :
                          /\ gdf' = run.gdf
                          /\ config' = DefaultConfig
                          /\ scores' = IF run.err = NoError THEN run.scores ELSE NoScores
                          /\ raised' = run.err

\* the cached selector is dropped
ResetSelectorCache ==
    /\ call = Idle
    /\ call' = "reset_selector_cache"
    /\ cache' = FALSE
    /\ gdf' = EmptyTable
    /\ config' = EmptyTable
    /\ scores' = NoScores
    /\ raised' = NoError
    /\ UNCHANGED <<disk, sessions, args, out, pool, selected, selN, selD, warned>>

ChargerData == {NoChargers, [r \in Regions |-> IF r = "t1" THEN R(2) ELSE R(60)]}

GoodFiles ==
    WithOptional({Unloaded(BaseTable)},
        << <<"equity_0_trips", [Regions -> Numbers({0, 10})]>>,
           <<"landuse_pct_protected_natural", [Regions -> ProtectedShares]>> >>)

\* a file of the set, without some of its columns
Without(f, cols) == [c \in DOMAIN f \ cols |-> f[c]]

LoadFiles == {Without(f, cols) : f \in GoodFiles, cols \in SUBSET {"GEOID", "geometry"}}

InitLoad ==
    /\ file \in LoadFiles
    /\ chargers \in ChargerData
    /\ cache = FALSE
    /\ args = <<>>
    /\ gdf = EmptyTable
    /\ config = EmptyTable
    /\ scores = NoScores
    /\ out = <<>>
    /\ pool = <<>>
    /\ selected = <<>>
    /\ selN = 0
    /\ selD = 0
    /\ warned = FALSE
    /\ raised = NoError
    /\ call = Idle
    /\ sessions = NoSessions

NextLoad == GetSelector \/ ResetSelectorCache \/ Return

SpecLoad == InitLoad /\ [][NextLoad]_vars

-----------------------------------------------------------------------------
(* _normalize_score in floating-point arithmetic.  pandas computes on binary *)
(* floating-point numbers: every operation returns the representable number  *)
(* nearest to the exact result, ties going to the even significand.  The     *)
(* model keeps Precision bits of significand and does not bound the          *)
(* exponent.                                                                 *)

Precision == 5

RECURSIVE Pow2(_)
Pow2(k) == IF k = 0 THEN 1 ELSE 2 * Pow2(k - 1)

\* the integer nearest to n / d, the even one of two equally near
RoundHalfEven(n, d) ==
    IF 2 * (n % d) > d \/ (2 * (n % d) = d /\ (n \div d) % 2 = 1)
    THEN (n \div d) + 1
    ELSE n \div d

\* the representable number nearest to n / d > 0: scale the quotient by powers
\* of two until it has Precision bits before the point, round, scale back
RECURSIVE FlPos(_, _)
FlPos(n, d) ==
    IF n < Pow2(Precision - 1) * d THEN RDiv(FlPos(2 * n, d), R(2))
    ELSE IF n >= Pow2(Precision) * d THEN RMul(R(2), FlPos(n, 2 * d))
    ELSE R(RoundHalfEven(n, d))

Fl(a) ==
    IF IsNaN(a) \/ a[1] = 0 THEN a
    ELSE IF a[1] < 0 THEN RSub(Zero, FlPos(-a[1], a[2]))
    ELSE FlPos(a[1], a[2])

FlSub(a, b) == Fl(RSub(a, b))
FlMul(a, b) == Fl(RMul(a, b))
FlDiv(a, b) == Fl(RDiv(a, b))

\* 100 * (series - series.min()) / (series.max() - series.min()), operation by
\* operation
RescaleFloat(x, lo, hi) ==
    IF RGt(hi, lo)
    THEN [r \in Regions |-> FlDiv(FlMul(Hundred, FlSub(x[r], lo)), FlSub(hi, lo))]
    ELSE Const(Zero)

MinMaxFloat(x) == RescaleFloat(x, ColMin(x), ColMax(x))

NormalizeScoreFloat(col) == MinMaxFloat(FillNa(col))

\* self._normalize_score(df[col]) for a column of the table
NormalizeScoreCall(col) ==
    /\ call = Idle
    /\ Has(gdf, col)
    /\ call' = "_normalize_score"
    /\ out' = NormalizeScoreFloat(gdf[col])
    /\ raised' = NoError
    /\ UNCHANGED <<gdf, config, scores, pool, selected, selN, selD, warned, disk, sessions, cache, args>>

\* the numbers with an integer significand of Precision bits, and 0
FloatInputs == {R(0)} \cup {R(m) : m \in Pow2(Precision - 1)..(Pow2(Precision) - 1)}

NormalizeTables ==
    {Put(BaseTable, "park_ride_spaces_within_5mi", c) : c \in [Regions -> FloatInputs]}

InitNormalize ==
    /\ gdf \in NormalizeTables
    /\ config = DefaultConfig
    /\ scores = NoScores
    /\ out = <<>>
    /\ pool = <<>>
    /\ selected = <<>>
    /\ selN = 0
    /\ selD = 0
    /\ warned = FALSE
    /\ raised = NoError
    /\ call = Idle
    /\ sessions = NoSessions
    /\ LoadedAs(gdf)

NextNormalize == NormalizeScoreCall("park_ride_spaces_within_5mi") \/ Return

SpecNormalize == InitNormalize /\ [][NextNormalize]_vars

-----------------------------------------------------------------------------
(* The weight normalizers on their own: configurations whose                 *)
(* demand_component_weights hold fractions, points and None, or whose        *)
(* demand_weights hold numbers, NaN, None and text, with keys missing        *)

\* self._normalize_weight_dict(self.config.get('demand_component_weights', {}))
NormalizeWeightDictCall ==
    /\ call = Idle
    /\ call' = "_normalize_weight_dict"
    /\ args' = <<Get(config, "demand_component_weights", <<>>)>>
    /\ out' = ComponentWeights(config)
    /\ raised' = NoError
    /\ UNCHANGED <<gdf, config, scores, pool, selected, selN, selD, warned, disk, sessions, cache>>

\* self._normalize_weight_group(demand_weights, keys, defaults)
NormalizeWeightGroupCall(keys, defaults) ==
    /\ call = Idle
    /\ call' = "_normalize_weight_group"
    /\ args' = <<DemandWeights(config), keys, defaults>>
    /\ out' = NormalizeWeightGroup(DemandWeights(config), keys, defaults)
    /\ raised' = NoError
    /\ UNCHANGED <<gdf, config, scores, pool, selected, selN, selD, warned, disk, sessions, cache>>

\* the dicts that give some of the keys a value of the set
Dicts(keys, values) == UNION {[S -> values] : S \in SUBSET keys}

ComponentDicts ==
    Dicts({"purpose", "day_of_week", "equity_trips"},
          {Zero, Rat(1, 2), R(20), R(40), None})

GroupDicts ==
    Dicts({"home_end_weight", "workplace_end_weight", "other_end_weight"},
          {Zero, R(1), R(-1), NaN, None, Text})
    \cup Dicts({"weekday_weight", "weekend_weight"}, {Zero, R(30), R(70), NaN, Text})

\* the key lists the demand scorer passes with their defaults, the same lists
\* with defaults that sum to 0, and the empty list
KeyGroups ==
    {<<PurposeKeys, PurposeDefaults>>, <<DowKeys, DowDefaults>>,
     <<PurposeKeys, <<Zero, Zero, Zero>> >>, <<DowKeys, <<R(1), R(-1)>> >>,
     << <<>>, <<>> >>}

WeightConfigs ==
    {[DefaultConfig EXCEPT !["demand_component_weights"] = d] : d \in ComponentDicts}
    \cup {[DefaultConfig EXCEPT !["demand_weights"] = d] : d \in GroupDicts}

InitWeights ==
    /\ gdf = BaseTable
    /\ config \in WeightConfigs
    /\ scores = NoScores
    /\ out = <<>>
    /\ pool = <<>>
    /\ selected = <<>>
    /\ selN = 0
    /\ selD = 0
    /\ warned = FALSE
    /\ raised = NoError
    /\ call = Idle
    /\ sessions = NoSessions
    /\ LoadedAs(gdf)

NextWeights ==
    \/ NormalizeWeightDictCall
    \/ \E g \in KeyGroups : NormalizeWeightGroupCall(g[1], g[2])
    \/ Return

SpecWeights == InitWeights /\ [][NextWeights]_vars

-----------------------------------------------------------------------------
(* The demand scorer on its own: tables with the day-of-week columns, with   *)
(* or without the equity-trip columns, and configurations that give the two  *)
(* day-of-week weights values or leave them out                              *)

CalculateDemandScore ==
    /\ call = Idle
    /\ call' = "calculate_demand_score"
    /\ gdf' = DemandGdf(gdf, config)
    /\ out' = IF DemandError(gdf, config) = NoError THEN DemandScore(gdf, config) ELSE <<>>
    /\ raised' = DemandError(gdf, config)
    /\ UNCHANGED <<config, scores, pool, selected, selN, selD, warned, disk, sessions, cache, args>>

DemandTables ==
    {Put(Put(t, "dow_1_trips", a), "dow_2_3_trips", b) :
        t \in {BaseTable,
               Put(Put(BaseTable, "equity_0_trips",
                       [r \in Regions |-> IF r = "t1" THEN R(10) ELSE Zero]),
                   "equity_1_trips", [r \in Regions |-> IF r = "t2" THEN R(5) ELSE Zero])},
        a \in [Regions -> Numbers({0, 10})], b \in [Regions -> Numbers({0, 10})]}

\* demand_weights with the two day-of-week entries replaced by those of d
WithDowWeights(d) ==
    [k \in (DOMAIN DefaultConfig["demand_weights"] \ {"weekday_weight", "weekend_weight"})
           \cup DOMAIN d |->
        IF k \in DOMAIN d THEN d[k] ELSE DefaultConfig["demand_weights"][k]]

DemandConfigs ==
    {[DefaultConfig EXCEPT !["demand_weights"] = WithDowWeights(d)] :
        d \in Dicts({"weekday_weight", "weekend_weight"}, {Zero, R(30), R(70)})}

InitDemand ==
    /\ gdf \in DemandTables
    /\ config \in DemandConfigs
    /\ scores = NoScores
    /\ out = <<>>
    /\ pool = <<>>
    /\ selected = <<>>
    /\ selN = 0
    /\ selD = 0
    /\ warned = FALSE
    /\ raised = NoError
    /\ call = Idle
    /\ sessions = NoSessions
    /\ LoadedAs(gdf)

NextDemand == CalculateDemandScore \/ Return

SpecDemand == InitDemand /\ [][NextDemand]_vars

-----------------------------------------------------------------------------
(* classify_charging_type on its own: tables that hold the long-distance     *)
(* share under one of its names, as fractions or as percentages, or not at   *)
(* all                                                                       *)

ClassifyChargingType ==
    /\ call = Idle
    /\ call' = "classify_charging_type"
    /\ gdf' = Put(Put(gdf, "charging_type", ChargingType(gdf)),
                  "pct_long_distance_trips", LongDistanceShare(gdf))
    /\ out' = ChargingType(gdf)
    /\ raised' = NoError
    /\ UNCHANGED <<config, scores, pool, selected, selN, selD, warned, disk, sessions, cache, args>>

\* 0, 2% and 42%, written as fractions and as percentages
LongDistanceValues == {Zero, Rat(1, 50), Rat(21, 50), R(2), R(42)}

ClassifyTables ==
    {BaseTable} \cup
    {Put(BaseTable, LongDistanceCols[i], c) :
        i \in 1..Len(LongDistanceCols), c \in [Regions -> LongDistanceValues]}

InitClassify ==
    /\ gdf \in ClassifyTables
    /\ config = DefaultConfig
    /\ scores = NoScores
    /\ out = <<>>
    /\ pool = <<>>
    /\ selected = <<>>
    /\ selN = 0
    /\ selD = 0
    /\ warned = FALSE
    /\ raised = NoError
    /\ call = Idle
    /\ sessions = NoSessions
    /\ LoadedAs(gdf)

NextClassify == ClassifyChargingType \/ Return

SpecClassify == InitClassify /\ [][NextClassify]_vars

-----------------------------------------------------------------------------
(* The scoring of tables that differ in what the classifiers read: an        *)
(* environmental-justice score and trips in every region, and on top of      *)
(* those a charging_type column, a long-distance share, context bonuses      *)

\* the columns the two classifiers read and no scorer is meant to
ClassifierCols ==
    {LongDistanceCols[i] : i \in 1..Len(LongDistanceCols)}
    \cup {"urban_context_bonus", "rural_context_bonus", "mixed_use_bonus", "charging_type"}

LabelBases ==
    {Put(Put(BaseTable, "equity_1_trips", Const(R(10))), "ej_priority_score", c) :
        c \in [Regions -> Numbers({0, 50})]}

\* urban and rural bonus of t1, t2, t3, with or without a mixed-use bonus
ContextBonuses ==
    {[urban_context_bonus |-> [r \in Regions |-> IF r = "t1" THEN R(1) ELSE Zero],
      rural_context_bonus |-> [r \in Regions |-> IF r = "t2" THEN R(1) ELSE Zero]],
     [urban_context_bonus |-> Const(R(1)),
      rural_context_bonus |-> Const(R(1)),
      mixed_use_bonus |-> [r \in Regions |-> IF r = "t3" THEN R(1) ELSE Zero]]}

LabelTables ==
    {Merge(t, b) :
        t \in WithOptional(LabelBases,
                << <<"charging_type", [Regions -> {"depot_overnight", "other"}]>>,
                   <<"%_long_distance_trips", {Const(Zero), Const(R(42))}>>,
                   <<"percent_long_distance_trips",
                     {[r \in Regions |-> IF r = "t1" THEN R(42) ELSE R(2)]}>> >>),
        b \in {<<>>} \cup ContextBonuses}

InitLabels ==
    /\ gdf \in LabelTables
    /\ config = DefaultConfig
    /\ scores = NoScores
    /\ out = <<>>
    /\ pool = <<>>
    /\ selected = <<>>
    /\ selN = 0
    /\ selD = 0
    /\ warned = FALSE
    /\ raised = NoError
    /\ call = Idle
    /\ sessions = NoSessions
    /\ LoadedAs(gdf)

NextLabels == CalculateCompositeScore \/ Return

SpecLabels == InitLabels /\ [][NextLabels]_vars

-----------------------------------------------------------------------------
(* Re-scoring: get_selector loads and scores a file under the default        *)
(* configuration, then the configuration is changed and the table scored     *)
(* again, any number of times.  The files hold trips in every region, a      *)
(* temporal pair or none, and may hold a long-distance share under its third *)
(* name and protected land everywhere.                                       *)

\* run_analysis stores the weights and constraints of the controls in
\* selector.config before it calls calculate_composite_score
Configure(cfg) ==
    /\ call = Idle
    /\ cache
    /\ cfg # config
    /\ config' = cfg
    /\ UNCHANGED <<gdf, scores, result, call, disk, sessions, cache, args>>

RescoreFiles ==
    WithOptional(
        {Put(Unloaded(BaseTable), "equity_1_trips", Const(R(10)))} \cup
        {Put(Put(Put(Unloaded(BaseTable), "equity_1_trips", Const(R(10))),
                 "truck_peak_demand_score", [r \in Regions |-> IF r = "t1" THEN R(50) ELSE Zero]),
             "truck_temporal_stability_score", c) : c \in [Regions -> Numbers({0, 100})]},
        << <<"percent_long_distance_trips",
             {[r \in Regions |-> IF r = "t1" THEN R(42) ELSE R(2)]}>>,
           <<"landuse_pct_protected_natural", {Const(R(95))}>> >>)

\* temporal weights 60/40, 100/0 and 0/0
TemporalWeightChoices == {<<R(60), R(40)>>, <<R(100), Zero>>, <<Zero, Zero>>}

RescoreConfigs ==
    {[DefaultConfig EXCEPT !["weights"] = w,
                           !["demand_weights"]["temporal_stability_weight"] = t[1],
                           !["demand_weights"]["temporal_peak_weight"] = t[2],
                           !["constraints"]["only_within_secondary_buffer"] = b] :
        w \in {DefaultWeights, PointWeights}, t \in TemporalWeightChoices, b \in BOOLEAN}

InitRescore ==
    /\ file \in RescoreFiles
    /\ chargers \in ChargerData
    /\ cache = FALSE
    /\ args = <<>>
    /\ gdf = EmptyTable
    /\ config = EmptyTable
    /\ scores = NoScores
    /\ out = <<>>
    /\ pool = <<>>
    /\ selected = <<>>
    /\ selN = 0
    /\ selD = 0
    /\ warned = FALSE
    /\ raised = NoError
    /\ call = Idle
    /\ sessions = NoSessions

NextRescore ==
    \/ GetSelector
    \/ \E cfg \in RescoreConfigs : Configure(cfg)
    \/ (cache /\ CalculateCompositeScore)
    \/ Return

SpecRescore == InitRescore /\ [][NextRescore]_vars

-----------------------------------------------------------------------------
(* run_analysis: the callback behind the Run Analysis button.  The server    *)
(* runs the callbacks of different browser sessions on the one cached        *)
(* selector, each in its own thread, and the callback takes no lock: between *)
(* any two of its statements on the selector another session's callback may  *)
(* run.  Its statements on the selector are the steps below.                 *)

\* demand_w + infra_w + access_w + equity_w
TotalPoints(inp) == SumOver([i \in 1..4 |-> inp.weights[i]], 1..4)

\* selector.config['weights']: the points times 100 / total_weight when the
\* total is not 100, then divided by 100
MainWeights(inp) ==
    LET factor == IF REq(TotalPoints(inp), Hundred) THEN R(1)
                  ELSE RDiv(Hundred, TotalPoints(inp))
        w(i) == RDiv(RMul(inp.weights[i], factor), Hundred)
    IN  [demand |-> w(1), infrastructure |-> w(2),
         accessibility |-> w(3), equity_feasibility |-> w(4)]

\* a sub-weight group: each weight over the group's sum, zeros when the sum is
\* not positive
SubWeights(given) ==
    IF RGt(SumValues(given), Zero)
    THEN [k \in DOMAIN given |-> RDiv(given[k], SumValues(given))]
    ELSE [k \in DOMAIN given |-> Zero]

\* the configuration after the weight assignments of a click
WithWeights(cfg, inp) ==
    [cfg EXCEPT !["weights"] = MainWeights(inp),
                !["demand_weights"] = inp.demand_weights,
                !["demand_component_weights"] =
                    [purpose |-> Rat(7, 20), day_of_week |-> Rat(1, 4),
                     equity_trips |-> Rat(1, 5), temporal_pattern |-> Rat(1, 5)],
                !["infrastructure_weights"] = SubWeights(inp.infrastructure_weights),
                !["accessibility_weights"] = SubWeights(inp.accessibility_weights),
                !["equity_weights"] = SubWeights(inp.equity_weights)]

\* the configuration after the constraint assignments of a click
WithConstraints(cfg, inp) ==
    [cfg EXCEPT !["constraints"]["min_person_trips"] = inp.min_person_trips,
                !["constraints"]["only_within_secondary_buffer"] = inp.secondary_buffer_value,
                !["constraints"]["only_rural"] = inp.rural_only_value,
                !["constraints"]["exclude_zero_headroom"] = inp.exclude_zero_headroom_value]

\* everything one click writes
Written(cfg, inp) == WithConstraints(WithWeights(cfg, inp), inp)

\* the click: the main weights are rescaled to 100 points (100 / total_weight
\* raises ZeroDivisionError when they sum to 0), then get_selector returns the
\* cached selector
RunAnalysis(s, inp) ==
    /\ cache
    /\ sessions[s].pc = "ready"
    /\ sessions' = [sessions EXCEPT ![s] =
          IF REq(TotalPoints(inp), Zero)
          THEN [Ready EXCEPT !.pc = "done", !.inp = inp, !.raised = "ZeroDivisionError"]
          ELSE [Ready EXCEPT !.pc = "weights", !.inp = inp]]
    /\ UNCHANGED <<gdf, config, scores, result, call, disk, cache, args>>

\* selector.config['weights'] = ... to selector.config['equity_weights'] = ...
UpdateWeights(s) ==
    /\ sessions[s].pc = "weights"
    /\ config' = WithWeights(config, sessions[s].inp)
    /\ sessions' = [sessions EXCEPT ![s].pc = "constraints"]
    /\ UNCHANGED <<gdf, scores, result, call, disk, cache, args>>

\* selector.config['constraints'][...] = ...
UpdateConstraints(s) ==
    /\ sessions[s].pc = "constraints"
    /\ config' = WithConstraints(config, sessions[s].inp)
    /\ sessions' = [sessions EXCEPT ![s].pc = "score"]
    /\ UNCHANGED <<gdf, scores, result, call, disk, cache, args>>

\* scored_data = selector.calculate_composite_score(); an exception takes the
\* callback to its handler
RunCompositeScore(s) ==
    /\ sessions[s].pc = "score"
    /\ \E run \in {CompositeRun(gdf, config)} :
          /\ gdf' = run.gdf
          /\ scores' = IF run.err = NoError THEN run.scores ELSE scores
          /\ sessions' = [sessions EXCEPT ![s] =
                IF run.err = NoError
                THEN [@ EXCEPT !.pc = "select", !.scored_data = run.scores]
                ELSE [@ EXCEPT !.pc = "done", !.raised = run.err]]
    /\ UNCHANGED <<config, result, call, disk, cache, args>>

\* optimal_sites = selector.select_optimal_sites(n_sites=int(n_sites),
\* min_distance_mi=0), on the scores the selector holds now
RunSelectSites(s) ==
    /\ sessions[s].pc = "select"
    /\ IF scores = NoScores
       THEN sessions' = [sessions EXCEPT ![s] =
               [@ EXCEPT !.pc = "done", !.raised = "ValueError"]]
       ELSE \E p \in SortedPools(scores) :
               \E sel \in {Greedy(scores["geometry"], p, sessions[s].inp.n_sites, 0)} :
                  sessions' = [sessions EXCEPT ![s] =
                     [@ EXCEPT !.pc = "done", !.optimal_sites = sel,
                               !.raised = ResultError(sel)]]
    /\ UNCHANGED <<gdf, config, scores, result, call, disk, cache, args>>

\* the callback returns the scored table and the sites, or the error alert
RunReturn(s) ==
    /\ sessions[s].pc = "done"
    /\ sessions' = [sessions EXCEPT ![s] = Ready]
    /\ UNCHANGED <<gdf, config, scores, result, call, disk, cache, args>>

\* the file of the sessions: equity-community trips in two regions, an equity priority that
\* ranks the regions the other way round, a rural flag on the first and third
SessionFile ==
    Put(Put(Put(Put(Unloaded(BaseTable), "equity_0_trips", Const(Zero)),
                "equity_1_trips",
                [r \in Regions |-> IF r = "t1" THEN R(10) ELSE IF r = "t2" THEN R(5) ELSE Zero]),
            "ej_priority_score",
            [r \in Regions |-> IF r = "t1" THEN R(10) ELSE IF r = "t2" THEN R(90) ELSE R(50)]),
        "rural_flag",
        [r \in Regions |-> IF r = "t2" THEN Zero ELSE R(1)])

\* the controls of a click with main weights w, n sites and the rural-only
\* toggle ru; the other controls are at their initial values
Controls(w, n, ru) ==
    [weights |-> w,
     demand_weights |-> DefaultConfig["demand_weights"],
     infrastructure_weights |->
        [truck_charger_gap_weight |-> R(40), park_ride_weight |-> R(30),
         government_weight |-> R(30)],
     accessibility_weights |->
        [network_weight |-> R(50), grocery_weight |-> R(25), gas_station_weight |-> R(25)],
     equity_weights |->
        [ej_priority_weight |-> R(40), landuse_suit_weight |-> R(35),
         tier_bonus_weight |-> R(15), protected_penalty_weight |-> R(10)],
     n_sites |-> n,
     min_person_trips |-> R(10),
     secondary_buffer_value |-> FALSE,
     rural_only_value |-> ru,
     exclude_zero_headroom_value |-> FALSE]

\* main weights on demand only (with and without the rural-only toggle), on
\* equity only, on accessibility only, on demand and equity with 40 points
\* in all, and all zero
AnalysisInputs ==
    {Controls(<<Hundred, Zero, Zero, Zero>>, 1, FALSE),
     Controls(<<Hundred, Zero, Zero, Zero>>, 1, TRUE),
     Controls(<<Zero, Zero, Zero, Hundred>>, 2, FALSE),
     Controls(<<Zero, Zero, Hundred, Zero>>, 1, FALSE),
     Controls(<<R(30), Zero, Zero, R(10)>>, 2, TRUE),
     Controls(<<Zero, Zero, Zero, Zero>>, 1, FALSE)}

InitSessions ==
    /\ file = SessionFile
    /\ chargers = NoChargers
    /\ cache = FALSE
    /\ args = <<>>
    /\ gdf = EmptyTable
    /\ config = EmptyTable
    /\ scores = NoScores
    /\ out = <<>>
    /\ pool = <<>>
    /\ selected = <<>>
    /\ selN = 0
    /\ selD = 0
    /\ warned = FALSE
    /\ raised = NoError
    /\ call = Idle
    /\ sessions = NoSessions

\* the preload of app.py, then the callbacks of the sessions in any interleaving
NextSessions ==
    \/ GetSelector
    \/ Return
    \/ \E s \in Sessions :
          \/ \E inp \in AnalysisInputs : RunAnalysis(s, inp)
          \/ UpdateWeights(s)
          \/ UpdateConstraints(s)
          \/ RunCompositeScore(s)
          \/ RunSelectSites(s)
          \/ RunReturn(s)

SpecSessions == InitSessions /\ [][NextSessions]_vars

-----------------------------------------------------------------------------
(* The land-use constraint on its own: tables with trips everywhere, with or  *)
(* without a protected-land share per region and with or without a           *)
(* mostly-protected flag per region, scored under the default configuration. *)

LandUseTables ==
    WithOptional({Put(BaseTable, "equity_1_trips", Const(R(10)))},
        << <<"landuse_pct_protected_natural", [Regions -> Numbers({10, 95, 96})]>>,
           <<"mostly_protected", [Regions -> Numbers({0, 1})]>> >>)

InitLandUse ==
    /\ gdf \in LandUseTables
    /\ config = DefaultConfig
    /\ scores = NoScores
    /\ out = <<>>
    /\ pool = <<>>
    /\ selected = <<>>
    /\ selN = 0
    /\ selD = 0
    /\ warned = FALSE
    /\ raised = NoError
    /\ call = Idle
    /\ sessions = NoSessions
    /\ LoadedAs(gdf)

NextLandUse == CalculateCompositeScore \/ Return

SpecLandUse == InitLandUse /\ [][NextLandUse]_vars

-----------------------------------------------------------------------------
(* classify_urban_rural on its own: tables with or without the two context   *)
(* bonuses (the urban one may be negative), a mixed-use bonus and a land-use *)
(* diversity score                                                           *)

\* the method stores the labels in self.gdf and returns them
ClassifyUrbanRural ==
    /\ call = Idle
    /\ call' = "classify_urban_rural"
    /\ out' = UrbanRural(gdf)
    /\ gdf' = Put(gdf, "urban_rural_context", UrbanRural(gdf))
    /\ raised' = NoError
    /\ UNCHANGED <<config, scores, pool, selected, selN, selD, warned, disk, sessions, cache, args>>

ContextTables ==
    WithOptional({BaseTable},
        << <<"urban_context_bonus", [Regions -> Numbers({-1, 0, 1})]>>,
           <<"rural_context_bonus", [Regions -> Numbers({0, 1})]>>,
           <<"mixed_use_bonus",
             {Const(Zero), [r \in Regions |-> IF r = "t1" THEN R(1) ELSE Zero]}>>,
           <<"landuse_diversity_score",
             {Const(R(60)), [r \in Regions |-> IF r = "t2" THEN R(60) ELSE R(50)]}>> >>)

InitContext ==
    /\ gdf \in ContextTables
    /\ config = DefaultConfig
    /\ scores = NoScores
    /\ out = <<>>
    /\ pool = <<>>
    /\ selected = <<>>
    /\ selN = 0
    /\ selD = 0
    /\ warned = FALSE
    /\ raised = NoError
    /\ call = Idle
    /\ sessions = NoSessions
    /\ LoadedAs(gdf)

NextContext == ClassifyUrbanRural \/ Return

SpecContext == InitContext /\ [][NextContext]_vars

-----------------------------------------------------------------------------
(* The life of one selector: constructed, not yet scored; then configuration *)
(* changes, scoring calls, selections and exports in any order.  The tables  *)
(* have trips everywhere, and protected land in some, all or no regions, so  *)
(* that a scoring call may fail.                                             *)

\* n_sites=4 of select_optimal_sites
DefaultSites == 4

\* export_results(output_path, selected_sites_path): without scores it raises
\* ValueError; else it writes the scored table to the output file and, given a
\* second path, the sites select_optimal_sites() returns
ExportResults(sites) ==
    /\ call = Idle
    /\ call' = "export_results"
    /\ UNCHANGED <<gdf, config, scores, disk, sessions, cache, args>>
    /\ IF scores = NoScores
       THEN /\ raised' = "ValueError"
            /\ out' = <<>>
            /\ UNCHANGED <<pool, selected, selN, selD, warned>>
       ELSE /\ out' = scores
            /\ IF sites
               THEN \E p \in SortedPools(scores) :
                       \E sel \in {Greedy(scores["geometry"], p, DefaultSites, 0)} :
                          /\ pool' = p
                          /\ selected' = sel
                          /\ selN' = DefaultSites
                          /\ selD' = 0
                          /\ warned' = (Len(sel) < DefaultSites)
                          /\ raised' = ResultError(sel)
               ELSE /\ raised' = NoError
                    /\ UNCHANGED <<pool, selected, selN, selD, warned>>

LifecycleTables ==
    WithOptional({Put(BaseTable, "equity_1_trips", Const(R(10)))},
        << <<"landuse_pct_protected_natural", [Regions -> ProtectedShares]>> >>)

InitLifecycle ==
    /\ gdf \in LifecycleTables
    /\ config = DefaultConfig
    /\ scores = NoScores
    /\ out = <<>>
    /\ pool = <<>>
    /\ selected = <<>>
    /\ selN = 0
    /\ selD = 0
    /\ warned = FALSE
    /\ raised = NoError
    /\ call = Idle
    /\ sessions = NoSessions
    /\ LoadedAs(gdf)

\* the configurations of the re-scoring, and one with all the weight on
\* accessibility, under which these tables have no positive composite
LifecycleConfigs ==
    RescoreConfigs \cup
    {[DefaultConfig EXCEPT !["weights"] =
         [demand |-> Zero, infrastructure |-> Zero,
          accessibility |-> R(1), equity_feasibility |-> Zero]]}

NextLifecycle ==
    \/ \E cfg \in LifecycleConfigs : Configure(cfg)
    \/ CalculateCompositeScore
    \/ SelectCall
    \/ \E sites \in BOOLEAN : ExportResults(sites)
    \/ Return

SpecLifecycle == InitLifecycle /\ [][NextLifecycle]_vars

-----------------------------------------------------------------------------
(* One session: its run_analysis callbacks run one after the other *)

NextAnalysis ==
    \/ GetSelector
    \/ Return
    \/ \E inp \in AnalysisInputs : RunAnalysis("a", inp)
    \/ UpdateWeights("a")
    \/ UpdateConstraints("a")
    \/ RunCompositeScore("a")
    \/ RunSelectSites("a")
    \/ RunReturn("a")

SpecAnalysis == InitSessions /\ [][NextAnalysis]_vars

-----------------------------------------------------------------------------
(* Claims about select_optimal_sites, checked under SpecSelect *)

Selecting == call = "select_optimal_sites" /\ scores # NoScores
Returned == Selecting /\ raised = NoError
Geom(r) == scores["geometry"][r]
Composite(r) == scores["composite_score"][r]
SelectedSet == {selected[i] : i \in 1..Len(selected)}
IsPrefix(s, t) == Len(s) <= Len(t) /\ s = SubSeq(t, 1, Len(s))
\* 69 * distance >= min_distance_mi, stated on the squares
Apart(a, b, d) == d <= 0 \/ 69 * 69 * DistSq(a, b) >= d * d

\* C1: any two distinct regions of the result have centroids at least
\* min_distance_mi apart (planar degrees times 69).
C1_Separation ==
    Returned =>
        \A i \in 1..Len(selected) : \A j \in 1..Len(selected) :
            i # j => Apart(Geom(selected[i]), Geom(selected[j]), selD)

\* a call that selected two regions and turned a feasible one down for distance
C1_Witness ==
    /\ Returned /\ selD > 0 /\ Len(selected) >= 2
    /\ \E r \in FeasibleRows(scores) \ SelectedSet :
           \E s \in SelectedSet : ~Apart(Geom(r), Geom(s), selD)

\* C2: with the table and min_distance_mi fixed, the result for n_sites = k is
\* a prefix (same regions, same rank order) of the result for n_sites = k + 1;
\* sort_values is deterministic, so both calls iterate the same sorted pool.
C2_Prefix ==
    Returned =>
        IsPrefix(selected, Greedy(scores["geometry"], pool, selN + 1, selD))

\* the larger request selects one more region, after a rejection for distance
C2_Witness ==
    LET next == Greedy(scores["geometry"], pool, selN + 1, selD)
        nextSet == {next[i] : i \in 1..Len(next)}
    IN  /\ Returned /\ selD > 0 /\ Len(selected) = selN
        /\ Len(next) = selN + 1
        /\ \E i \in 1..Len(pool) :
               /\ pool[i] \notin nextSet
               /\ \E j \in 1..Len(pool) : j > i /\ pool[j] \in nextSet

\* some n feasible regions are pairwise at least d apart
Separable(S, d) == \A a \in S : \A b \in S : a # b => Apart(Geom(a), Geom(b), d)
ExhaustiveFinds(n, d) ==
    \E S \in SUBSET FeasibleRows(scores) : Cardinality(S) = n /\ Separable(S, d)

\* C3 as stated: whenever the feasible pool holds n_sites regions that are
\* pairwise at least min_distance_mi apart, n_sites regions are returned.
C3_NeverFewerThanExhaustive ==
    (Selecting /\ selN >= 1 /\ ExhaustiveFinds(selN, selD)) => Len(selected) = selN

\* C3 as amended: a result shorter than n_sites is maximal, every feasible
\* region left out lies closer than min_distance_mi to a selected region.
C3_ShortResultIsMaximal ==
    (Returned /\ Len(selected) < selN) =>
        \A r \in FeasibleRows(scores) \ SelectedSet :
            \E s \in SelectedSet : ~Apart(Geom(r), Geom(s), selD)

\* a short result although an exhaustive search finds n_sites regions
C3_Witness ==
    /\ Returned /\ Len(selected) < selN /\ ExhaustiveFinds(selN, selD)

\* C4: every returned region is feasible, none is returned twice, at most
\* n_sites are returned, and composite_score does not increase with the rank.
C4_ResultShape ==
    Returned =>
        /\ \A i \in 1..Len(selected) : scores["feasible"][selected[i]] = TRUE
        /\ \A i \in 1..Len(selected) : \A j \in 1..Len(selected) :
               i # j => selected[i] # selected[j]
        /\ Len(selected) <= selN
        /\ \A i \in 1..Len(selected) : \A j \in 1..Len(selected) :
               i < j => RGe(Composite(selected[i]), Composite(selected[j]))

\* two regions of different composite selected out of a table that also
\* holds an infeasible region
C4_Witness ==
    /\ Returned /\ Len(selected) >= 2
    /\ RGt(Composite(selected[1]), Composite(selected[2]))
    /\ \E r \in Regions : scores["feasible"][r] = FALSE

\* C5 as stated: when fewer than n_sites regions are selected, or n_sites is
\* 0, the call returns the short (possibly empty) list with a warning and
\* does not raise.
C5_ShortfallWarnsAndReturns ==
    (Selecting /\ (Len(selected) < selN \/ selN = 0)) =>
        /\ raised = NoError
        /\ Len(selected) < selN => warned

-----------------------------------------------------------------------------
(* Claims about calculate_composite_score, checked under SpecScore *)

Scored == call = "calculate_composite_score" /\ raised = NoError
Feasible(r) == scores["feasible"][r]
\* equity_0_trips + equity_1_trips of the loaded table, absent columns as 0
Activity(r) ==
    RAdd(IF Has(gdf, "equity_0_trips") THEN gdf["equity_0_trips"][r] ELSE Zero,
         IF Has(gdf, "equity_1_trips") THEN gdf["equity_1_trips"][r] ELSE Zero)
SomeActivity == \E r \in Regions : RGt(Activity(r), Zero)
\* a region both the text and the code exclude: no activity where some region
\* has activity, or almost entirely protected land
Excluded(r) ==
    \/ SomeActivity /\ Activity(r) = Zero
    \/ Has(gdf, "landuse_pct_protected_natural")
          /\ RGe(gdf["landuse_pct_protected_natural"][r], R(95))

\* C6: after calculate_composite_score the scored table has exactly one row
\* per region of the input table, and every region that fails feasibility is
\* in it with feasible = False and composite_score exactly 0, whatever its
\* category scores and the weights.
C6_InfeasibleKeptAtZero ==
    Scored =>
        /\ \A c \in DOMAIN scores : DOMAIN scores[c] = Regions
        /\ scores["GEOID"] = gdf["GEOID"]
        /\ \A r \in Regions : Excluded(r) => ~Feasible(r)
        /\ \A r \in Regions : ~Feasible(r) => Composite(r) = Zero

\* an excluded region with positive category scores next to a feasible one
C6_Witness ==
    /\ Scored
    /\ \E r \in Regions :
          /\ Excluded(r) /\ ~Feasible(r)
          /\ RGt(scores["demand_score"][r], Zero)
          /\ RGt(scores["equity_feasibility_score"][r], Zero)
    /\ \E q \in Regions : Feasible(q) /\ RGt(Composite(q), Zero)

\* the two forms of top-level weights: fractions summing to 1, points
\* summing to 100
AcceptedWeights ==
    SumValues(config["weights"]) = R(1) \/ SumValues(config["weights"]) = Hundred

\* C7: after calculate_composite_score with top-level weights in either
\* accepted form, the composite_score of every feasible region lies in
\* [0, 100].
C7_CompositeInRange ==
    (Scored /\ AcceptedWeights) =>
        \A r \in Regions :
            Feasible(r) => RGe(Composite(r), Zero) /\ RLe(Composite(r), Hundred)

\* C8: when some region has positive person activity, a region is marked
\* feasible only if its total person activity is at least the configured
\* min_person_trips.
C8_FeasibleMeetsThreshold ==
    (Scored /\ SomeActivity) =>
        \A r \in Regions :
            Feasible(r) => RGe(Activity(r), config["constraints"]["min_person_trips"])

-----------------------------------------------------------------------------
(* Claims about the category scorers, checked under SpecInfra and            *)
(* SpecCategory                                                              *)

AllZero(col) == \A r \in Regions : col[r] = Zero

\* the three weights the configuration surface exposes are all 0
ExposedInfraWeightsZero ==
    \A k \in {"truck_charger_gap_weight", "park_ride_weight", "government_weight"} :
        Has(InfraGiven(config), k) /\ InfraGiven(config)[k] = Zero

\* C9: with the charger-gap, park-and-ride and government weights all 0 in
\* the configuration, calculate_infrastructure_score returns 0 for every
\* region, whatever the regions' infrastructure attributes.
C9_ExposedZeroScoresZero ==
    (call = "calculate_infrastructure_score" /\ ExposedInfraWeightsZero) => AllZero(out)

AccessSumZero == SumValues(config["accessibility_weights"]) = Zero
EquitySumZero == SumValues(config["equity_weights"]) = Zero
AccessReturned == call = "calculate_accessibility_score"
EquityReturned == call = "calculate_equity_feasibility_score" /\ raised = NoError

\* C10 as stated: for every configuration whose accessibility weights sum to
\* 0, calculate_accessibility_score returns 0 for every region, and for
\* every configuration whose equity weights sum to 0,
\* calculate_equity_feasibility_score returns 0 for every region.
C10_ZeroSumScoresZero ==
    /\ (AccessReturned /\ AccessSumZero) => AllZero(out)
    /\ (EquityReturned /\ EquitySumZero) => AllZero(out)

\* C10 amended: the accessibility half holds for the configurations with
\* secondary_corridor_mode off; in that mode the score is the corridor score
\* and the weights are not read.  The equity half holds as stated.
C10_ZeroSumScoresZeroOutsideCorridorMode ==
    /\ (AccessReturned /\ AccessSumZero /\ ~config["secondary_corridor_mode"])
          => AllZero(out)
    /\ (EquityReturned /\ EquitySumZero) => AllZero(out)

\* weights that cancel to 0 over a table whose network column would score
C10_Witness ==
    /\ AccessReturned /\ AccessSumZero /\ ~config["secondary_corridor_mode"]
    /\ config["accessibility_weights"]["network_weight"] # Zero
    /\ Has(gdf, "D3AAO") /\ ~AllZero(NormalizeScore(gdf["D3AAO"]))
    /\ AllZero(out)

-----------------------------------------------------------------------------
(* Claims about errors, checked under SpecScore *)

\* C11: for every table with the two mandatory columns and every
\* configuration, calculate_composite_score returns the scored table without
\* raising, also when no region is feasible or every composite score is 0.
C11_CompositeNeverRaises ==
    call = "calculate_composite_score" => (raised = NoError /\ out # NoScores)


-----------------------------------------------------------------------------
(* Claims about loading, checked under SpecLoad *)

MissingRequired == ~(Has(file, "GEOID") /\ Has(file, "geometry"))

\* C12: a file without GEOID or without geometry makes get_selector raise in
\* the constructor: the error is the caller's, no selector is cached, no table
\* is loaded or completed with defaults, and no scores exist.
C12_MissingColumnFailsAtLoad ==
    MissingRequired =>
        /\ ~cache
        /\ gdf = EmptyTable
        /\ scores = NoScores
        /\ call = "get_selector" => raised \in {"ValueError", "AttributeError"}

C12_Witness == MissingRequired /\ call = "get_selector" /\ raised = "ValueError"


-----------------------------------------------------------------------------
(* Claims about the normalizers, checked under SpecNormalize *)

\* C13: for every finite input series _normalize_score returns values in
\* [0, 100] inclusive.
C13_NormalizedInRange ==
    call = "_normalize_score" =>
        \A r \in Regions : RGe(out[r], Zero) /\ RLe(out[r], Hundred)


-----------------------------------------------------------------------------
(* Claims about the weight normalizers, checked under SpecWeights *)

\* the dict a call of _normalize_weight_dict was given, and the sum of its
\* values that are not None
GivenDict == args[1]
GivenSum == SumOver(GivenDict, NonNull(GivenDict))

\* C14: _normalize_weight_dict returns its input when the values that are not
\* None sum to at most 1.5, and then normalizing again changes nothing;
\* otherwise every value is divided by that sum, None becomes 0 and the result
\* sums to 1, and normalizing the result again changes nothing.
C14_FractionsKeptPointsDivided ==
    call = "_normalize_weight_dict" =>
        /\ RLe(GivenSum, Rat(3, 2)) => out = GivenDict
        /\ RGt(GivenSum, Rat(3, 2)) =>
              /\ DOMAIN out = DOMAIN GivenDict
              /\ \A k \in DOMAIN out :
                    out[k] = IF GivenDict[k] = None THEN Zero
                             ELSE RDiv(GivenDict[k], GivenSum)
              /\ SumValues(out) = R(1)
        /\ NormalizeWeightDict(out) = out

\* points 40/40/20 have become 0.4/0.4/0.2
C14_Witness ==
    /\ call = "_normalize_weight_dict"
    /\ GivenDict = [purpose |-> R(40), day_of_week |-> R(40), equity_trips |-> R(20)]
    /\ out = [purpose |-> Rat(2, 5), day_of_week |-> Rat(2, 5), equity_trips |-> Rat(1, 5)]


\* the arguments of a call of _normalize_weight_group
GivenKeys == args[2]
GivenDefaults == args[3]

\* the value float() makes of the entry of key i, its default when the entry is
\* missing, is NaN or is no number
Extracted(i) ==
    IF /\ GivenKeys[i] \in DOMAIN args[1]
       /\ args[1][GivenKeys[i]] \notin {NaN, None, Text}
    THEN args[1][GivenKeys[i]]
    ELSE GivenDefaults[i]

SumOfExtracted == SumOver([i \in 1..Len(GivenKeys) |-> Extracted(i)], 1..Len(GivenKeys))
SumOfDefaults == SumOver(GivenDefaults, 1..Len(GivenKeys))

\* the returned tuple has one value per key, sums to 1 and holds the extracted
\* values over their sum, or the defaults over theirs when the values sum to
\* 0, or equal weights when the defaults sum to 0 too
GroupNormalized ==
    /\ raised = NoError
    /\ DOMAIN out = 1..Len(GivenKeys)
    /\ SumOver(out, DOMAIN out) = R(1)
    /\ \A i \in DOMAIN out :
          out[i] = IF SumOfExtracted # Zero THEN RDiv(Extracted(i), SumOfExtracted)
                   ELSE IF SumOfDefaults # Zero THEN RDiv(GivenDefaults[i], SumOfDefaults)
                   ELSE Rat(1, Len(GivenKeys))

\* C15 as stated: _normalize_weight_group returns such a tuple for every
\* weights mapping, every key list and matching defaults.
C15_GroupNormalized == call = "_normalize_weight_group" => GroupNormalized

\* C15: _normalize_weight_group returns such a tuple for every weights mapping
\* and every key list that is not empty.
C15_GroupNormalizedForSomeKey ==
    (call = "_normalize_weight_group" /\ GivenKeys # <<>>) => GroupNormalized

\* an entry of text, a NaN entry and a missing entry took their defaults
C15_Witness ==
    /\ call = "_normalize_weight_group"
    /\ GivenKeys = PurposeKeys
    /\ GivenDefaults = PurposeDefaults
    /\ args[1] = [home_end_weight |-> Text, workplace_end_weight |-> NaN]
    /\ out = PurposeDefaults


-----------------------------------------------------------------------------
(* Claims about the demand scorer, checked under SpecDemand *)

DemandReturned == call = "calculate_demand_score" /\ raised = NoError

\* the day-of-week weights as configured
DowGiven(k) == Has(config["demand_weights"], k)
DowWeight(k) == config["demand_weights"][k]

\* the components besides day-of-week that the tables of SpecDemand can have
OtherComponents ==
    Component(gdf, config, EquityTripCols, EquityTripKeys, EquityTripDefaults,
              "equity_trips", Rat(1, 5))

\* the day-of-week component made of one of its two columns alone
DowComponentOf(col) ==
    <<[score |-> NormalizeScoreWithDensity(gdf, gdf[col]), weight |-> Rat(1, 4)]>>

\* C16: with both day-of-week weights present and summing to 0 the demand
\* score is made of the other components alone; with one of the two missing
\* and the other 0 the component is scored, the missing weight at its default
\* (so that the column of the missing weight makes the whole component).
C16_ZeroGroupSkippedMissingKeyScored ==
    DemandReturned =>
        /\ (/\ DowGiven("weekday_weight") /\ DowGiven("weekend_weight")
            /\ RAdd(DowWeight("weekday_weight"), DowWeight("weekend_weight")) = Zero)
           => out = CombineComponents(OtherComponents)
        /\ (/\ ~DowGiven("weekday_weight") /\ DowGiven("weekend_weight")
            /\ DowWeight("weekend_weight") = Zero)
           => out = CombineComponents(DowComponentOf("dow_1_trips") \o OtherComponents)
        /\ (/\ DowGiven("weekday_weight") /\ ~DowGiven("weekend_weight")
            /\ DowWeight("weekday_weight") = Zero)
           => out = CombineComponents(DowComponentOf("dow_2_3_trips") \o OtherComponents)

\* weekday_weight missing, weekend_weight 0, and the day-of-week component has
\* changed the score
C16_Witness ==
    /\ DemandReturned
    /\ ~DowGiven("weekday_weight")
    /\ DowGiven("weekend_weight") /\ DowWeight("weekend_weight") = Zero
    /\ OtherComponents # <<>>
    /\ out # CombineComponents(OtherComponents)


-----------------------------------------------------------------------------
(* Claims about classify_charging_type, checked under SpecClassify *)

\* the threshold the text gives: 0.05 for a column whose maximum is at most 1,
\* read as fractions, and 5 for any other, read as percentages
ScaledThreshold(share) == IF RLe(ColMax(share), R(1)) THEN Rat(1, 20) ELSE R(5)

\* C17: a region is labelled long_distance exactly when its long-distance
\* share is above the threshold of the scale of the column; the share stored
\* in pct_long_distance_trips is 0 when the table has no such column, which
\* labels every region other.
C17_ThresholdFollowsScale ==
    call = "classify_charging_type" =>
        \A r \in Regions :
            out[r] = IF RGt(gdf["pct_long_distance_trips"][r],
                            ScaledThreshold(gdf["pct_long_distance_trips"]))
                     THEN "long_distance"
                     ELSE "other"


-----------------------------------------------------------------------------
(* Claims about the labels, checked under SpecLabels *)

ScoreCols == {"demand_score", "infrastructure_score", "accessibility_score",
              "equity_feasibility_score", "composite_score", "feasible"}

\* how a run ended and the scores and feasibility it returned
Outcome(err, table) ==
    [err |-> err,
     scores |-> IF err = NoError THEN [c \in ScoreCols |-> table[c]] ELSE <<>>]

\* the outcome of scoring the loaded table without its classifier columns
OutcomeWithoutLabels ==
    Outcome(CompositeRun(Without(Loaded(file, chargers), ClassifierCols), config).err,
            CompositeRun(Without(Loaded(file, chargers), ClassifierCols), config).scores)

-----------------------------------------------------------------------------
(* Claims about what scoring leaves behind, checked under SpecRescore *)

\* the table the scoring of get_selector leaves in self.gdf
AfterFirstScoring == CompositeRun(Loaded(file, chargers), DefaultConfig).gdf

\* C19: whatever calls of calculate_composite_score were made, self.gdf has
\* the columns and the values it had when __init__ returned, or, should the
\* scoring that get_selector does count as part of the load, those it had when
\* get_selector returned.
C19_TableNeverMutated ==
    cache => (gdf = Loaded(file, chargers) \/ gdf = AfterFirstScoring)

\* C20: the outcome of every call of calculate_composite_score, the table it
\* returns or the exception it raises, is the outcome of the call on a
\* selector just loaded from the same file and given the current
\* configuration; so two calls in a row under one configuration agree.
C20_SameAsFreshlyLoaded ==
    call = "calculate_composite_score" =>
        /\ raised = CompositeRun(Loaded(file, chargers), config).err
        /\ out = CompositeRun(Loaded(file, chargers), config).scores

\* a call under a configuration that disables the temporal group, on a table
\* that still holds the temporal component of an earlier call, of a file that
\* names the long-distance share by its third alias
C20_Witness ==
    /\ call = "calculate_composite_score"
    /\ raised = NoError
    /\ IsGroupDisabled(config["demand_weights"], TemporalKeys)
    /\ Has(gdf, "temporal_component_score")
    /\ Has(file, "percent_long_distance_trips")
    /\ out["charging_type"]["t1"] = "long_distance"

-----------------------------------------------------------------------------
(* Claims about concurrent run_analysis callbacks *)

\* the run of calculate_composite_score under the configuration session s wrote
OwnRun(s) == CompositeRun(gdf, Written(config, sessions[s].inp))

\* the selections select_optimal_sites can make of a scored table
Selections(sc, n) == {Greedy(sc["geometry"], p, n, 0) : p \in SortedPools(sc)}

\* session s holds a scored table, and sites when it has selected them
Holds(s) ==
    /\ sessions[s].pc \in {"select", "done"}
    /\ sessions[s].scored_data # <<>>

\* C21: under every interleaving of two sessions' run_analysis callbacks, the
\* scored table a session holds is the one computed from the weights and
\* constraints that callback wrote, and the sites it holds are a selection
\* from that table
C21_SessionGetsOwnResults ==
    \A s \in Sessions :
        Holds(s) =>
            /\ sessions[s].scored_data = OwnRun(s).scores
            /\ sessions[s].pc = "done" =>
                  sessions[s].optimal_sites \in
                      Selections(sessions[s].scored_data, sessions[s].inp.n_sites)

-----------------------------------------------------------------------------
(* Claims about the rural-only toggle *)

\* rural_flag > 0, a null flag counting as 0
FlaggedRural(g, r) == RGt(FillNa(g["rural_flag"])[r], Zero)

\* in scored table sc every feasible region is flagged rural, and a region not
\* flagged rural is infeasible with composite 0
RuralOnly(g, sc) ==
    \A r \in Regions :
        /\ sc["feasible"][r] => FlaggedRural(g, r)
        /\ ~FlaggedRural(g, r) =>
              (~sc["feasible"][r] /\ sc["composite_score"][r] = Zero)

\* C22: when only_rural is set in the constraints and the table has a rural
\* flag, the scored table calculate_composite_score returns to run_analysis
\* marks only regions flagged rural as feasible, the others infeasible with
\* composite 0
C22_OnlyRuralFeasible ==
    [][\A s \in Sessions :
          (/\ sessions[s].pc = "score"
           /\ sessions'[s].pc = "select"
           /\ config["constraints"]["only_rural"]
           /\ Has(gdf, "rural_flag"))
          => RuralOnly(gdf, sessions'[s].scored_data)]_vars

-----------------------------------------------------------------------------
(* Claims about the selector get_selector returns *)

\* C23: a selector that get_selector returns has precomputed scores (scores is
\* not None), on the first call and on every later one, also after a call that
\* failed
C23_ReturnedSelectorIsScored ==
    (call = "get_selector" /\ raised = NoError) => scores # NoScores

-----------------------------------------------------------------------------
(* Claims about the land-use constraint *)

\* the protected share of region r is at or above 95
HighProtectedShare(g, r) ==
    Has(g, "landuse_pct_protected_natural")
    /\ RGe(g["landuse_pct_protected_natural"][r], R(95))

\* region r is flagged mostly-protected
FlaggedProtected(g, r) ==
    Has(g, "mostly_protected") /\ g["mostly_protected"][r] # Zero

\* C24: a region whose protected share is at or above the threshold is
\* infeasible, and so is a region flagged mostly-protected, whichever of the
\* two columns the table has
C24_EitherConditionExcludes ==
    (call = "calculate_composite_score" /\ raised = NoError) =>
        \A r \in Regions :
            (HighProtectedShare(gdf, r) \/ FlaggedProtected(gdf, r))
                => ~out["feasible"][r]

-----------------------------------------------------------------------------
(* Claims about components whose column is absent *)

\* of the columns the infrastructure scorer reads, the table has only the
\* distance to the nearest charger: the charger gap is the one component
\* present
OnlyChargerGapPresent(g) ==
    /\ Has(g, "nearest_truck_charger_mi")
    /\ DOMAIN g \subseteq DOMAIN BaseTable

\* C25: the weights of a category are renormalized over the components whose
\* column is present, so a region that scores 100 on every present component
\* gets a category score of 100; for the infrastructure scorer with the charger
\* gap as its only present component, a region with the full gap score gets 100
C25_PresentComponentsCarryFullWeight ==
    (/\ call = "calculate_infrastructure_score"
     /\ OnlyChargerGapPresent(gdf)
     /\ ~InfraDisabled(config)
     /\ RGt(InfraWeights(config)["truck_charger_gap_weight"], Zero))
    => \A r \in Regions :
          CapScore(gdf["nearest_truck_charger_mi"][r], 50) = Hundred
              => out[r] = Hundred

-----------------------------------------------------------------------------
(* Claims about the charger-gap sub-score *)

\* the 90th percentile of a column: position 0.9 * (n - 1) in the sorted values
Quantile90(col) == Interpolate(SortAsc(col, Regions), 18 * (Cardinality(Regions) - 1))

\* the share of the infrastructure score the charger gap has
GapWeight(cfg) == NormalizeWeightDict(InfraWeights(cfg))["truck_charger_gap_weight"]

\* C26: the charger-gap sub-score does not decrease with the distance to the
\* nearest charger, and its cap is the 90th percentile of the distances in the
\* table: a region at or beyond that percentile gets the maximum gap score, 100
C26_GapCappedAtPercentile ==
    (/\ call = "calculate_infrastructure_score"
     /\ OnlyChargerGapPresent(gdf)
     /\ ~InfraDisabled(config)
     /\ RGt(InfraWeights(config)["truck_charger_gap_weight"], Zero))
    => \A r \in Regions :
          /\ \A q \in Regions :
                RLe(gdf["nearest_truck_charger_mi"][q], gdf["nearest_truck_charger_mi"][r])
                    => RLe(out[q], out[r])
          /\ RGe(gdf["nearest_truck_charger_mi"][r],
                 Quantile90(gdf["nearest_truck_charger_mi"]))
                => out[r] = RMul(Hundred, GapWeight(config))

-----------------------------------------------------------------------------
(* Claims about classify_urban_rural *)

\* the table the method read: the table it left, without the labels it stored
ContextInput == Without(gdf, {"urban_rural_context"})

HasBonuses(g) == Has(g, "urban_context_bonus") /\ Has(g, "rural_context_bonus")

\* a bonus of region r, a null or an absent column counting as 0
Bonus(g, c, r) == FillNa(Get(g, c, Const(Zero)))[r]

HighDiversity(g, r) ==
    Has(g, "landuse_diversity_score")
    /\ RGt(FillNa(g["landuse_diversity_score"])[r], R(50))

\* the label as stated: by nonzero bonuses, the mixed-use bonus playing no part
StatedContext(g, r) ==
    LET u == Bonus(g, "urban_context_bonus", r)
        ru == Bonus(g, "rural_context_bonus", r)
    IN  IF ~HasBonuses(g) THEN "unknown"
        ELSE IF u # Zero /\ ru # Zero THEN "mixed"
        ELSE IF u # Zero THEN "urban"
        ELSE IF ru # Zero THEN "rural"
        ELSE IF HighDiversity(g, r) THEN "mixed"
        ELSE "unknown"

\* the label with the mixed-use bonus and the sign of the bonuses taken into
\* account: mixed when both bonuses are positive or the mixed-use bonus is,
\* urban or rural when one bonus is positive and the other is 0, mixed when
\* both are 0 and the diversity is high, unknown otherwise
AmendedContext(g, r) ==
    LET u == Bonus(g, "urban_context_bonus", r)
        ru == Bonus(g, "rural_context_bonus", r)
    IN  IF ~HasBonuses(g) THEN "unknown"
        ELSE IF u = Zero /\ ru = Zero /\ HighDiversity(g, r) THEN "mixed"
        ELSE IF RGt(Bonus(g, "mixed_use_bonus", r), Zero) THEN "mixed"
        ELSE IF RGt(u, Zero) /\ RGt(ru, Zero) THEN "mixed"
        ELSE IF RGt(u, Zero) /\ ru = Zero THEN "urban"
        ELSE IF RGt(ru, Zero) /\ u = Zero THEN "rural"
        ELSE "unknown"

\* C27 as stated: every region gets the label its two bonuses and its
\* diversity score determine: mixed when both bonuses are nonzero, urban or
\* rural when only that bonus is nonzero, mixed when neither is and the
\* diversity is high, unknown otherwise and when the bonus columns are absent
C27_LabelByNonzeroBonuses ==
    call = "classify_urban_rural" =>
        \A r \in Regions : out[r] = StatedContext(ContextInput, r)

\* C27, amended: every region gets exactly one label: mixed when the mixed-use
\* bonus is positive or both bonuses are, urban or rural when that bonus is
\* positive and the other is 0, mixed when both are 0 and the diversity is
\* high, unknown otherwise and when the bonus columns are absent; the label
\* is the one stored in the table
C27_LabelByPositiveBonuses ==
    call = "classify_urban_rural" =>
        /\ \A r \in Regions : out[r] = AmendedContext(ContextInput, r)
        /\ gdf["urban_rural_context"] = out

\* a region with a positive urban bonus, no rural bonus and a positive
\* mixed-use bonus has been labelled mixed
C27_Witness ==
    /\ call = "classify_urban_rural"
    /\ HasBonuses(ContextInput)
    /\ RGt(Bonus(ContextInput, "urban_context_bonus", "t1"), Zero)
    /\ Bonus(ContextInput, "rural_context_bonus", "t1") = Zero
    /\ RGt(Bonus(ContextInput, "mixed_use_bonus", "t1"), Zero)
    /\ out["t1"] = "mixed"

-----------------------------------------------------------------------------
(* Claims about selecting and exporting before and after scoring *)

\* this step is a call of select_optimal_sites or export_results
SelectsOrExports ==
    call = Idle /\ call' \in {"select_optimal_sites", "export_results"}

\* the call of this step ends with the ValueError of the missing scores: it
\* raises without having sorted a pool or exported a table
FailsForMissingScores ==
    raised' = "ValueError" /\ pool' = <<>> /\ out' = <<>> /\ selected' = <<>>

\* C28: while no scoring call has completed on the selector,
\* select_optimal_sites and export_results raise ValueError and leave the
\* configuration, the scores and the table as they were; once a scoring call
\* has completed the scores stay, and the two never raise for that reason
\* again, whatever the configuration changes to
C28_ValueErrorUntilScored ==
    [][/\ (SelectsOrExports /\ scores = NoScores)
            => (FailsForMissingScores /\ UNCHANGED <<config, scores, gdf>>)
       /\ scores # NoScores => scores' # NoScores
       /\ (SelectsOrExports /\ scores # NoScores) => ~FailsForMissingScores]_vars

\* a selection and an export succeeded under a configuration other than the
\* one the scores were computed from
C28_Witness ==
    /\ call \in {"select_optimal_sites", "export_results"}
    /\ raised = NoError
    /\ scores # NoScores
    /\ scores # CompositeRun(gdf, config).scores

-----------------------------------------------------------------------------
(* Claims about the configuration and the scores after run_analysis *)

\* no run_analysis callback is between its first and its last statement
NoRunInProgress == \A s \in Sessions : sessions[s].pc \in {"ready", "done"}

\* C29: after any sequence of run_analysis invocations, successful or failed,
\* the scores the selector holds are the scored table of its current
\* configuration
C29_ScoresMatchConfiguration ==
    (cache /\ NoRunInProgress) => scores = CompositeRun(gdf, config).scores

-----------------------------------------------------------------------------
(* Claims about the rank order of the selection *)

\* the position of the last selected region in the sorted pool
LastSelectedRank ==
    CHOOSE i \in 1..Len(pool) : pool[i] = selected[Len(selected)]

\* the smaller of two numbers
Smaller(a, b) == IF a < b THEN a ELSE b

\* C30: the selection is maximal with respect to rank: a feasible region that
\* was not selected and comes before the last selected one in the sorted pool
\* is closer than min_distance_mi to a selected region ranked above it; and
\* with min_distance_mi = 0 the result is the first min(n_sites, number of
\* feasible regions) regions of the pool, in pool order
C30_MaximalInRankOrder ==
    Returned =>
        /\ \A i \in 1..Len(pool) :
              (pool[i] \notin SelectedSet /\ i < LastSelectedRank) =>
                  \E j \in 1..(i - 1) :
                      /\ pool[j] \in SelectedSet
                      /\ ~Apart(Geom(pool[i]), Geom(pool[j]), selD)
        /\ selD = 0 =>
              selected = SubSeq(pool, 1,
                                Smaller(selN, Cardinality(FeasibleRows(scores))))

\* a call that passed over a feasible region for distance and selected a
\* region ranked below it
C30_Witness ==
    /\ Returned
    /\ selD > 0
    /\ \E i \in 1..Len(pool) : pool[i] \notin SelectedSet /\ i < LastSelectedRank

\* a call with min_distance_mi = 0 that found fewer feasible regions than
\* n_sites and returned them all
C30_WitnessNoDistance ==
    /\ Returned
    /\ selD = 0
    /\ Cardinality(FeasibleRows(scores)) < selN
    /\ Len(selected) = Cardinality(FeasibleRows(scores))
    /\ Len(selected) >= 2

=============================================================================
